---------------------------- MODULE Spec2Model ----------------------------
(***************************************************************************)
(* A model of blocks-cpp: in-place conversion of block devices between     *)
(* container formats (LVM retrofit, bcache retrofit), stacked resizing and *)
(* the rotation of LVM metadata.                                           *)
(*                                                                         *)
(* The module holds one state machine per subsystem.  Every subsystem has  *)
(* its own variables; a specification of one subsystem leaves the          *)
(* variables of the others at their idle value.                            *)
(*                                                                         *)
(*   SpecRotate        rotate_aug on an LVM metadata tree                  *)
(*   SpecResize        cmd_resize over a BlockStack                        *)
(*   SpecLuksToBcache  luks_to_bcache, by byte                             *)
(*   SpecToLvm         cmd_to_lvm, by sector                               *)
(*   SpecConvert       the three conversion pipelines and their steps      *)
(*   SpecSwap          Swap::read_superblock and Swap::_resize on a header *)
(*   SpecSize          BlockDevice::size and reset_size on one device      *)
(*   SpecVgName        the VG name cmd_to_lvm chooses and validates        *)
(*   SpecPartToBcache  part_to_bcache on a partition of a disk             *)
(*   SpecGetStack      get_block_stack on nested devices                   *)
(*   SpecExtResize     ExtFS::_resize on a superblock read by tune2fs      *)
(*   SpecDeactivate    the calls of each command on its block stack, deactivate included *)
(*   SpecMkDm          mk_dm and the removal callback it registers         *)
(***************************************************************************)
EXTENDS Integers, Sequences, FiniteSets, TLC

VARIABLES
    rot_tree,     \* the Augeas tree of the LV: segment_count and the segment nodes
    rot_size,     \* the size argument of rotate_aug, in bytes
    rot_hist,     \* the trees before each rotate_aug call made so far
    rot_dirs,     \* the direction of each call made so far (TRUE = forward)
    rot_status    \* "ok", or "aborted" once an assertion of rotate_aug has failed

VARIABLES
    st_layers,    \* BlockStack wrappers w0..wn-1, outermost first: [kind, offset, size]
    st_fs,        \* the topmost Filesystem: [kind, block_size, fssize]
    st_devsize,   \* device.size() of the device under the stack
    st_op,        \* the stack operation running: "none", "reserve", "grow"
    st_pos,       \* its argument pos / newsize
    st_status,    \* "idle", "entry", "walk", "done", "aborted"
    st_idx,       \* the loop position of the walk over the layers
    st_cur,       \* current_size of stack_grow
    st_log,       \* the per-layer steps invoked by the running operation
    st_snap,      \* the sizes of the layers when the operation was entered
    st_err,       \* the error that aborted the program, "" when none
    st_active     \* FALSE once BlockStack::deactivate has run

VARIABLES
    rz_pc,        \* cmd_resize: the statement reached
    rz_newsize,   \* its local newsize
    rz_delta,     \* its local device_delta
    rz_resize_device,  \* args.resize_device
    rz_devkind,   \* what the device is: "partition", "lv" or "disk"
    rz_log        \* the dev_resize calls made: direction, sizes, the state of
                  \* the stack at the call

VARIABLES
    cv_cmd,       \* the conversion running: "luks_to_bcache", "lv_to_bcache", "to_lvm"
    cv_pc,        \* the statement it has reached
    cv_trace,     \* the steps it has made, in order
    cv_ndebug,    \* TRUE when the build defines NDEBUG (assert is a no-op)
    cv_fd,        \* the exclusive descriptor on the device: "closed", "open"
    cv_synth,     \* the SyntheticDevice in hand: sizes and its data vector
    cv_res,       \* the dm devices, loop devices and temporary files that exist
    cv_bytes,     \* the content of the device: by byte, in cmd_to_lvm by sector
    cv_prev,      \* its content before the latest write of the conversion
    cv_orig,      \* its content when the conversion was started
    cv_luks,      \* the LUKS object: offset, sb_end, active
    cv_lvm,       \* cmd_to_lvm / lv_to_bcache: pe_size, pe_count, pe_newpos, the
                  \* metadata written to the restore file, the metadata read back
    cv_wlog,      \* the writes made to the device: the statement and whether the
                  \* exclusive descriptor was held
    cv_err        \* the error that ended the conversion, "" when none

VARIABLES
    sw_pc,        \* Swap: "idle", "start", "read", "rejected", "resized", "failed",
                  \* "reread", "unreadable"
    sw_orig,      \* the header as it was made: byte order, version, last_page
    sw_hdr,       \* the 8 bytes at offset 1024 of the signature page
    sw_signed,    \* TRUE when char is a signed type in the build
    sw_sb,        \* the members read_superblock set: big_endian, version, last_page
    sw_target,    \* the target_size of the latest _resize
    sz_dev,       \* BlockDevice: the size of the underlying device, in bytes
    sz_memo,      \* BlockDevice::memoized_uint64, a map from names to values
    sz_calls,     \* the size() calls since the latest reset_size(): whether
                  \* the probe ran, the value returned, the device size then
    vn_pc,        \* cmd_to_lvm's naming of the VG: "start", "named", "valid", "aborted"
    vn_args,      \* args.join, args.vgname and the basename of args.device
    vn_uuid,      \* the 16 bytes uuid_generate produces
    vn_ndebug,    \* whether the build has NDEBUG (assert is a no-op)
    vn_name,      \* vgname, a sequence of characters
    pb_pc,        \* part_to_bcache: "start", "reserve", "write", "shift", "done",
                  \* "returned1", "aborted"
    pb_parted,    \* whether PartitionTable is backed by libparted (TRUE) or is
                  \* the placeholders of block_device.cpp (FALSE)
    pb_ndebug,    \* whether the build has NDEBUG
    pb_before,    \* what lies before the partition: "free" or "used"
    pb_orig,      \* the partition when the command started: [start, size], bytes
    pb_part,      \* the partition as the partition table has it
    pb_disk,      \* the content of the underlying disk
    pb_writes,    \* the writes made, as ranges of the disk
    pb_err,       \* the error that ended the command
    gs_pc,        \* get_block_stack: "loop", "returned", "bailed", "failed"
    gs_devs,      \* the device given and the devices found inside it, in turn
    gs_i,         \* which of them the loop is at
    gs_stack,     \* the vector built so far
    gs_err        \* what ended the call when no stack is returned

VARIABLES
    ex_pc,        \* ExtFS::_resize: "start", "checked", "done", "failed", "aborted"
    ex_fs,        \* the ExtFS object: block_size, state, mount_tm, check_tm
    ex_sb,        \* the same fields as read_superblock found them
    ex_mounted,   \* is_mounted()
    ex_target,    \* target_size
    ex_cmds       \* the commands run, in order: tool, argument, whether it succeeded

VARIABLES
    da_cmd,       \* the command: "to_lvm", "lv_to_bcache", "resize"
    da_opt,       \* what the command found: a label, a shrink, resize_device, a partition
    da_pc,        \* "run", "teardown", "stop_written", "not_stopped", "done",
                  \* "aborted"
    da_next,      \* the index of the next call the command makes on its block stack
    da_stack,     \* BlockStack::stack, the kinds of its layers, outermost first
    da_idx,       \* the layer BlockStack::deactivate looks at next
    da_torn,      \* the layers whose deactivate() has returned, in order
    da_calls,     \* the calls on the block stack that have returned, in order
    da_live,      \* the BCacheBacking layers whose sysfs node bcache exists
    da_stopping   \* those the kernel was told to stop and has not stopped yet

VARIABLES
    md_pc,        \* mk_dm: "start", "fallback", "returned", "failed", "removed"
    md_args,      \* devname, table, readonly
    md_fallback,  \* needs_udev_fallback
    md_cmds,      \* the commands run, in order: argv, stdin, whether it succeeded
    md_callback   \* exit_callback: the captured remove_cmd, << >> while empty

cvVars == <<cv_cmd, cv_pc, cv_trace, cv_ndebug, cv_fd, cv_synth, cv_res,
            cv_bytes, cv_prev, cv_orig, cv_luks, cv_lvm, cv_wlog, cv_err>>

rotVars == <<rot_tree, rot_size, rot_hist, rot_dirs, rot_status>>

stVars == <<st_layers, st_fs, st_devsize, st_op, st_pos, st_status, st_idx,
            st_cur, st_log, st_snap, st_err, st_active>>

rzVars == <<rz_pc, rz_newsize, rz_delta, rz_resize_device, rz_devkind, rz_log>>

swVars == <<sw_pc, sw_orig, sw_hdr, sw_signed, sw_sb, sw_target>>

\* the variables of the models of single classes
szVars == <<sz_dev, sz_memo, sz_calls>>
vnVars == <<vn_pc, vn_args, vn_uuid, vn_ndebug, vn_name>>
pbVars == <<pb_pc, pb_parted, pb_ndebug, pb_before, pb_orig, pb_part, pb_disk,
            pb_writes, pb_err>>
gsVars == <<gs_pc, gs_devs, gs_i, gs_stack, gs_err>>
exVars == <<ex_pc, ex_fs, ex_sb, ex_mounted, ex_target, ex_cmds>>
daVars == <<da_cmd, da_opt, da_pc, da_next, da_stack, da_idx, da_torn, da_calls,
           da_live, da_stopping>>
mdVars == <<md_pc, md_args, md_fallback, md_cmds, md_callback>>
unitVars == <<swVars, szVars, vnVars, pbVars, gsVars, exVars, daVars, mdVars>>

\* what the model of one class leaves alone
notMdVars == <<rotVars, stVars, rzVars, cvVars, swVars, szVars, vnVars, pbVars, gsVars, exVars, daVars>>
notDaVars == <<rotVars, stVars, rzVars, cvVars, swVars, szVars, vnVars, pbVars, gsVars, exVars, mdVars>>
notExVars == <<rotVars, stVars, rzVars, cvVars, swVars, szVars, vnVars, pbVars, gsVars, daVars, mdVars>>
notSwVars == <<rotVars, stVars, rzVars, cvVars, szVars, vnVars, pbVars, gsVars, exVars, daVars, mdVars>>
notSzVars == <<rotVars, stVars, rzVars, cvVars, swVars, vnVars, pbVars, gsVars, exVars, daVars, mdVars>>
notVnVars == <<rotVars, stVars, rzVars, cvVars, swVars, szVars, pbVars, gsVars, exVars, daVars, mdVars>>
notGsVars == <<rotVars, stVars, rzVars, cvVars, swVars, szVars, vnVars, pbVars, exVars, daVars, mdVars>>
notPbVars == <<rotVars, stVars, rzVars, cvVars, swVars, szVars, vnVars, gsVars, exVars, daVars, mdVars>>

nonStackVars == <<rotVars, unitVars, rzVars, cvVars>>

vars == <<rotVars, unitVars, stVars, rzVars, cvVars>>

-----------------------------------------------------------------------------
(* Shared helpers of blocks_types.h *)

SECTOR == 512

\* bytes_to_sector: by / 512 (the assertion by % 512 == 0 is the caller's guard)
bytes_to_sector(by) == by \div SECTOR

\* align: round size down to a multiple of al
align(size, al) == (size \div al) * al

-----------------------------------------------------------------------------
(* The idle value of each subsystem's variables *)

RotIdle ==
    /\ rot_tree = [segment_count |-> 0, extent_size |-> 0, nodes |-> << >>]
    /\ rot_size = 0
    /\ rot_hist = << >>
    /\ rot_dirs = << >>
    /\ rot_status = "ok"

StackIdle ==
    /\ st_layers = << >>
    /\ st_fs = [kind |-> "ext4", block_size |-> 1024, fssize |-> 0]
    /\ st_devsize = 0
    /\ st_op = "none"
    /\ st_pos = 0
    /\ st_status = "idle"
    /\ st_idx = 0
    /\ st_cur = 0
    /\ st_log = << >>
    /\ st_snap = << >>
    /\ st_err = ""
    /\ st_active = FALSE

ResizeIdle ==
    /\ rz_pc = "idle"
    /\ rz_newsize = 0
    /\ rz_delta = 0
    /\ rz_resize_device = FALSE
    /\ rz_devkind = "disk"
    /\ rz_log = << >>

NoSynth == [hdr |-> 0, rz |-> 0, end |-> 0, data |-> << >>]

NoLuks == [offset |-> 0, sb_end |-> 0, active |-> FALSE]

NoLvm == [pe_size |-> 0, pe_count |-> 0, pe_newpos |-> 0, layout |-> << >>,
          metadata |-> << >>, vg_active |-> FALSE, data_size |-> 0]

NoSwapSb == [big_endian |-> FALSE, version |-> << >>, last_page |-> << >>]

SwapIdle ==
    /\ sw_pc = "idle"
    /\ sw_orig = [big |-> FALSE, version |-> 0, last_page |-> 0]
    /\ sw_hdr = << >>
    /\ sw_signed = FALSE
    /\ sw_sb = NoSwapSb
    /\ sw_target = 0

SizeIdle ==
    /\ sz_dev = 0
    /\ sz_memo = << >>
    /\ sz_calls = << >>

VgNameIdle ==
    /\ vn_pc = "idle"
    /\ vn_args = [join |-> << >>, vgname |-> << >>, base |-> << >>]
    /\ vn_uuid = << >>
    /\ vn_ndebug = FALSE
    /\ vn_name = << >>

PartIdle ==
    /\ pb_pc = "idle"
    /\ pb_parted = FALSE
    /\ pb_ndebug = FALSE
    /\ pb_before = "free"
    /\ pb_orig = [start |-> 0, size |-> 0]
    /\ pb_part = [start |-> 0, size |-> 0]
    /\ pb_disk = << >>
    /\ pb_writes = << >>
    /\ pb_err = ""

GetStackIdle ==
    /\ gs_pc = "idle"
    /\ gs_devs = << >>
    /\ gs_i = 0
    /\ gs_stack = << >>
    /\ gs_err = ""

ExtIdle ==
    /\ ex_pc = "idle"
    /\ ex_fs = [block_size |-> 0, state |-> "", mount_tm |-> 0, check_tm |-> 0]
    /\ ex_sb = ex_fs
    /\ ex_mounted = FALSE
    /\ ex_target = 0
    /\ ex_cmds = << >>

DeactIdle ==
    /\ da_cmd = ""
    /\ da_opt = [label |-> FALSE, shrink |-> FALSE, resize_device |-> FALSE, partition |-> FALSE]
    /\ da_pc = "idle"
    /\ da_next = 0
    /\ da_stack = << >>
    /\ da_idx = 0
    /\ da_torn = << >>
    /\ da_calls = << >>
    /\ da_live = {}
    /\ da_stopping = {}

MkDmIdle ==
    /\ md_pc = "idle"
    /\ md_args = [devname |-> "", table |-> "", readonly |-> FALSE]
    /\ md_fallback = FALSE
    /\ md_cmds = << >>
    /\ md_callback = << >>

UnitIdle == SwapIdle /\ SizeIdle /\ VgNameIdle /\ PartIdle /\ GetStackIdle /\ ExtIdle /\ DeactIdle /\ MkDmIdle

ConvIdle ==
    /\ cv_cmd = "none"
    /\ cv_pc = "idle"
    /\ cv_trace = << >>
    /\ cv_wlog = << >>
    /\ cv_ndebug = FALSE
    /\ cv_fd = "closed"
    /\ cv_synth = NoSynth
    /\ cv_res = {}
    /\ cv_bytes = << >>
    /\ cv_prev = << >>
    /\ cv_orig = << >>
    /\ cv_luks = NoLuks
    /\ cv_lvm = NoLvm
    /\ cv_err = ""

\* the state of everything but one class
NotMdIdle == RotIdle /\ StackIdle /\ ResizeIdle /\ ConvIdle /\ SwapIdle /\ SizeIdle /\ VgNameIdle /\ PartIdle /\ GetStackIdle /\ ExtIdle /\ DeactIdle
NotDaIdle == RotIdle /\ StackIdle /\ ResizeIdle /\ ConvIdle /\ SwapIdle /\ SizeIdle /\ VgNameIdle /\ PartIdle /\ GetStackIdle /\ ExtIdle /\ MkDmIdle
NotExIdle == RotIdle /\ StackIdle /\ ResizeIdle /\ ConvIdle /\ SwapIdle /\ SizeIdle /\ VgNameIdle /\ PartIdle /\ GetStackIdle /\ DeactIdle /\ MkDmIdle
NotSwIdle == RotIdle /\ StackIdle /\ ResizeIdle /\ ConvIdle /\ SizeIdle /\ VgNameIdle /\ PartIdle /\ GetStackIdle /\ ExtIdle /\ DeactIdle /\ MkDmIdle
NotSzIdle == RotIdle /\ StackIdle /\ ResizeIdle /\ ConvIdle /\ SwapIdle /\ VgNameIdle /\ PartIdle /\ GetStackIdle /\ ExtIdle /\ DeactIdle /\ MkDmIdle
NotVnIdle == RotIdle /\ StackIdle /\ ResizeIdle /\ ConvIdle /\ SwapIdle /\ SizeIdle /\ PartIdle /\ GetStackIdle /\ ExtIdle /\ DeactIdle /\ MkDmIdle
NotGsIdle == RotIdle /\ StackIdle /\ ResizeIdle /\ ConvIdle /\ SwapIdle /\ SizeIdle /\ VgNameIdle /\ PartIdle /\ ExtIdle /\ DeactIdle /\ MkDmIdle
NotPbIdle == RotIdle /\ StackIdle /\ ResizeIdle /\ ConvIdle /\ SwapIdle /\ SizeIdle /\ VgNameIdle /\ GetStackIdle /\ ExtIdle /\ DeactIdle /\ MkDmIdle

-----------------------------------------------------------------------------
(* Bounds of the rotation model *)

MaxSegs == 2          \* segments of an initial LV
MaxCount == 3         \* extent_count of an initial segment
MaxRot == 2           \* rotate_aug calls in one behaviour

PvNames == {"pv0", "pv1"}
PvOffsets == {0, 10}
PeSectors == 8        \* $vg/extent_size of the initial trees, in sectors

-----------------------------------------------------------------------------
(* The Augeas tree store.  A tree is [segment_count, extent_size, nodes]:  *)
(* nodes is the ordered list of the segmentN children of $lv, each with    *)
(* its label N and the fields of its dict.                                 *)

EmptyNode(l) ==
    [label |-> l, start_extent |-> 0, extent_count |-> 0, type |-> "",
     stripe_count |-> 0, pv |-> "", off |-> 0]

\* The position of the node labelled segment<l>, 0 when there is none.
NodeIdx(t, l) ==
    IF \E i \in 1..Len(t.nodes) : t.nodes[i].label = l
    THEN CHOOSE i \in 1..Len(t.nodes) :
             /\ t.nodes[i].label = l
             /\ \A j \in 1..(i - 1) : t.nodes[j].label # l
    ELSE 0

\* get / get_int of $lv/segment<l>/dict/<f>
AugGet(t, l, f) ==
    IF NodeIdx(t, l) = 0 THEN 0 ELSE t.nodes[NodeIdx(t, l)][f]

\* set / set_int of $lv/segment<l>/dict/<f>: the node is created when missing
AugSet(t, l, f, v) ==
    IF NodeIdx(t, l) = 0
    THEN [t EXCEPT !.nodes = Append(t.nodes, [EmptyNode(l) EXCEPT ![f] = v])]
    ELSE [t EXCEPT !.nodes[NodeIdx(t, l)][f] = v]

\* incr(key, by): set_int(key, get_int(key) + by)
AugIncr(t, l, f, by) == AugSet(t, l, f, AugGet(t, l, f) + by)

\* decr(key): incr(key, -1)
AugDecr(t, l, f) == AugIncr(t, l, f, -1)

\* insert(path, label, before): a new empty sibling next to segment<ref>
AugInsert(t, ref, l, before) ==
    LET i == NodeIdx(t, ref)
        k == IF before THEN i - 1 ELSE i
    IN  IF i = 0 THEN t
        ELSE [t EXCEPT !.nodes =
                 SubSeq(t.nodes, 1, k) \o <<EmptyNode(l)>>
                     \o SubSeq(t.nodes, k + 1, Len(t.nodes))]

\* remove(path): drop segment<l>
AugRemove(t, l) ==
    LET i == NodeIdx(t, l)
    IN  IF i = 0 THEN t
        ELSE [t EXCEPT !.nodes =
                 SubSeq(t.nodes, 1, i - 1) \o SubSeq(t.nodes, i + 1, Len(t.nodes))]

\* rename(src, dst): segment<l> becomes segment<l2>
AugRename(t, l, l2) ==
    IF NodeIdx(t, l) = 0 THEN t
    ELSE [t EXCEPT !.nodes[NodeIdx(t, l)].label = l2]

-----------------------------------------------------------------------------
(* rotate_aug *)

\* the loop of lines 82-86: the sum of extent_count over segment1..segment<n>
RECURSIVE ExtentTotal(_, _)
ExtentTotal(t, n) ==
    IF n = 0 THEN 0 ELSE ExtentTotal(t, n - 1) + AugGet(t, n, "extent_count")

\* the assertions of lines 83-84 over segment1..segment<n>
AllLinear(t, n) ==
    \A i \in 1..n : /\ AugGet(t, i, "type") = "striped"
                    /\ AugGet(t, i, "stripe_count") = 1

\* a rotation that leaves the start_extent of the later segments alone
KeepStartExtents(t, i, n) == t

\* lines 96-98: decr start_extent of segment<i>..segment<n>
RECURSIVE ShiftDown(_, _, _)
ShiftDown(t, i, n) ==
    IF i > n THEN t ELSE ShiftDown(AugDecr(t, i, "start_extent"), i + 1, n)

\* a forward rotation that does not renumber after it removed segment1
KeepNames(t, i, n) == t

\* lines 128-130: rename segment<i> to segment<i-1>, for i up to n
RECURSIVE RenameDown(_, _, _)
RenameDown(t, i, n) ==
    IF i > n THEN t ELSE RenameDown(AugRename(t, i, i - 1), i + 1, n)

\* a backward rotation that renames the segments and leaves their start_extent
RECURSIVE RenameUp(_, _)
RenameUp(t, i) ==
    IF i <= 0 THEN t ELSE RenameUp(AugRename(t, i, i + 1), i - 1)

\* lines 135-138: for i = n down to 1, incr start_extent and rename to segment<i+1>
RECURSIVE ShiftUp(_, _)
ShiftUp(t, i) ==
    IF i <= 0 THEN t
    ELSE ShiftUp(AugRename(AugIncr(t, i, "start_extent", 1), i, i + 1), i - 1)

\* lines 94-132
RotateForward(t1, segment_count, extent_total) ==
    LET t2 == ShiftDown(t1, 2, segment_count)
        t3 == AugDecr(t2, 1, "extent_count")
        t4 == AugInsert(t3, segment_count, segment_count + 1, FALSE)
        t5 == AugSet(t4, segment_count + 1, "start_extent", extent_total - 1)
        t6 == AugSet(AugSet(AugSet(t5, segment_count + 1, "extent_count", 1),
                            segment_count + 1, "type", "striped"),
                     segment_count + 1, "stripe_count", 1)
        t7 == AugSet(AugSet(t6, segment_count + 1, "pv", AugGet(t6, 1, "pv")),
                     segment_count + 1, "off", AugGet(t6, 1, "off"))
        t8 == AugIncr(t7, 1, "off", 1)
    IN  IF AugGet(t8, 1, "extent_count") = 0
        THEN LET t9 == RenameDown(AugRemove(t8, 1), 2, segment_count + 1)
             IN  [t9 EXCEPT !.segment_count = @ - 1]
        ELSE t8

\* lines 134-166
RotateBackward(t1, segment_count) ==
    LET t2 == ShiftUp(t1, segment_count)
        last == segment_count + 1
        t3 == AugDecr(t2, last, "extent_count")
        last_count == AugGet(t3, last, "extent_count")
        t4 == AugInsert(t3, 2, 1, TRUE)
        t5 == AugSet(t4, 1, "start_extent", 0)
        t6 == AugSet(AugSet(AugSet(t5, 1, "extent_count", 1),
                            1, "type", "striped"),
                     1, "stripe_count", 1)
        t7 == AugSet(AugSet(t6, 1, "pv", AugGet(t6, last, "pv")),
                     1, "off", AugGet(t6, last, "off") + last_count)
    IN  IF last_count = 0
        THEN [AugRemove(t7, last) EXCEPT !.segment_count = @ - 1]
        ELSE t7

\* rotate_aug(aug, forward, size): the tree it leaves and whether it ran to
\* its end (ok) or stopped at a failed assertion.
rotate_aug(t, forward, size) ==
    LET segment_count == t.segment_count
        pe_sectors == t.extent_size
        t1 == [t EXCEPT !.segment_count = @ + 1]
        extent_total == ExtentTotal(t1, segment_count)
    IN  IF ~ AllLinear(t1, segment_count)
           \/ extent_total * pe_sectors # bytes_to_sector(size)
           \/ ~ (extent_total > 1)
        THEN [ok |-> FALSE, tree |-> t1]
        ELSE [ok |-> TRUE,
              tree |-> IF forward
                       THEN RotateForward(t1, segment_count, extent_total)
                       ELSE RotateBackward(t1, segment_count)]

-----------------------------------------------------------------------------
(* The LV metadata trees vgcfgbackup hands to rotate_lv: linear segments,  *)
(* labelled segment1..segmentN, contiguous from extent 0.                  *)

SegChoices == [extent_count : 1..MaxCount, pv : PvNames, off : PvOffsets]

RECURSIVE StartOf(_, _)
StartOf(cs, i) == IF i = 1 THEN 0 ELSE StartOf(cs, i - 1) + cs[i - 1].extent_count

MkTree(cs) ==
    [segment_count |-> Len(cs),
     extent_size |-> PeSectors,
     nodes |-> [i \in 1..Len(cs) |->
                   [label |-> i, start_extent |-> StartOf(cs, i),
                    extent_count |-> cs[i].extent_count, type |-> "striped",
                    stripe_count |-> 1, pv |-> cs[i].pv, off |-> cs[i].off]]]

TreeBytes(t) == ExtentTotal(t, t.segment_count) * t.extent_size * SECTOR

ValidTrees ==
    { MkTree(cs) : cs \in UNION { [1..n -> SegChoices] : n \in 1..MaxSegs } }

\* the inputs the assertions of lines 83-89 tell apart: a valid tree, a
\* segment that is not striped, one with two stripes, a size that is not
\* that of the extents
RotKinds == {"valid", "type", "stripes", "size"}

Spoil(t, kind) ==
    IF kind = "type" THEN [t EXCEPT !.nodes[1].type = "mirror"]
    ELSE IF kind = "stripes" THEN [t EXCEPT !.nodes[Len(t.nodes)].stripe_count = 2]
    ELSE t

RotInit ==
    /\ \E t \in ValidTrees, kind \in RotKinds :
           /\ kind # "valid" =>
                  \A j \in 1..Len(t.nodes) :
                      t.nodes[j].pv = "pv0" /\ t.nodes[j].off = 0
           /\ rot_tree = Spoil(t, kind)
           /\ rot_size = TreeBytes(t) + (IF kind = "size" THEN SECTOR ELSE 0)
    /\ rot_hist = << >>
    /\ rot_dirs = << >>
    /\ rot_status = "ok"
    /\ UnitIdle
    /\ StackIdle
    /\ ResizeIdle
    /\ ConvIdle

\* rotate_lv's call rotate_aug(aug, forward, size), lines 264 and 272
Rotate(forward) ==
    /\ rot_status = "ok"
    /\ Len(rot_dirs) < MaxRot
    /\ LET r == rotate_aug(rot_tree, forward, rot_size)
       IN  /\ rot_tree' = r.tree
           /\ rot_status' = IF r.ok THEN "ok" ELSE "aborted"
    /\ rot_hist' = Append(rot_hist, rot_tree)
    /\ rot_dirs' = Append(rot_dirs, forward)
    /\ UNCHANGED rot_size
    /\ UNCHANGED <<unitVars, stVars, rzVars, cvVars>>

RotateFwd == Rotate(TRUE)
RotateBwd == Rotate(FALSE)

RotNext == RotateFwd \/ RotateBwd

SpecRotate == RotInit /\ [][RotNext]_vars

-----------------------------------------------------------------------------
(* BlockStack: the wrappers w0..wn-1 (LUKS, BCacheBacking) over one device *)
(* and the filesystem on top.  Sizes are in bytes.  uint64_t arithmetic is *)
(* kept modulo Word, a word narrow enough to be explored.                  *)

WordBits == 20
Word == 2 ^ WordBits
Wrap(x) == x % Word

MaxWrappers == 2

WrapperKinds == {"luks", "bcache"}
FsKinds == {"ext4", "xfs", "nilfs2", "btrfs", "reiserfs", "swap"}
ToolOutcomes == {"ok", "fail"}      \* how an external command or syscall ends

ShrinksAlways(kind) == TRUE

\* can_shrink() of the Filesystem classes
can_shrink(kind) == kind # "xfs"

\* SimpleContainer::offset of a wrapper of the initial stacks
OffsetOf(kind) == IF kind = "luks" THEN 4096 ELSE 8192

\* block_size read from the superblock of an initial filesystem
BlockSizeOf(kind) == IF kind = "ext4" THEN 1024 ELSE 4096

\* BlockStack::overhead: the sum of the wrappers' offsets
RECURSIVE overhead(_)
overhead(layers) ==
    IF layers = << >> THEN 0
    ELSE Wrap(layers[1].offset + overhead(Tail(layers)))

\* an iter_pos that hands the outer position to every layer
IterPosSame(layers, i, pos) ==
    [j \in 1..(Len(layers) + 2 - i) |-> [pos |-> pos, layer |-> i + j - 1]]

\* BlockStack::iter_pos: (pos, layer) outermost first; layer n+1 is the filesystem
RECURSIVE IterPosFrom(_, _, _)
IterPosFrom(layers, i, pos) ==
    IF i > Len(layers) THEN << [pos |-> pos, layer |-> i] >>
    ELSE << [pos |-> pos, layer |-> i] >>
             \o IterPosFrom(layers, i + 1, Wrap(pos - layers[i].offset))

iter_pos(layers, pos) == IterPosFrom(layers, 1, pos)

Unreversed(seq) == seq

\* std::reverse
Reverse(seq) == [i \in 1..Len(seq) |-> seq[Len(seq) + 1 - i]]

\* BlockStack::total_data_size
total_data_size(layers, fs) == Wrap(fs.fssize + overhead(layers))

\* Filesystem::fssize is block_size * block_count or size_bytes; the model
\* keeps the product.

\* The size of the device layer i sits on: the device itself for w0, the
\* device exposed by the wrapper below otherwise (i = n+1: the filesystem).
ContainerSize(layers, devsize, i) == IF i = 1 THEN devsize ELSE layers[i - 1].size

\* Swap::_resize then Swap::read_superblock: last_page = target / 4096 - 1 is
\* written as a uint32_t and block_count = last_page + 1 read back, so a
\* target of 0 wraps to block_count 0; last_page = 0 is refused on reading.
SwapResize(fs, target, tool) ==
    IF tool = "fail"
    THEN [ok |-> FALSE, err |-> "SwapHeaderWriteFailed", fssize |-> fs.fssize]
    ELSE IF target \div fs.block_size = 1
    THEN [ok |-> FALSE, err |-> "UnsupportedSuperblock", fssize |-> fs.block_size]
    ELSE [ok |-> TRUE, err |-> "", fssize |-> fs.block_size * (target \div fs.block_size)]

\* The _resize of the other classes runs the filesystem's own tool, which
\* resizes to the target or fails, and never beyond the device it is on.
ToolResize(fs, target, container, tool) ==
    IF tool = "ok" /\ target <= container
    THEN [ok |-> TRUE, err |-> "", fssize |-> target]
    ELSE [ok |-> FALSE, err |-> "ExternalCommandFailed", fssize |-> fs.fssize]

\* Filesystem::_mount_and_resize
mount_and_resize(fs, pos, container, tool) ==
    LET r == IF fs.kind = "swap" THEN SwapResize(fs, pos, tool)
             ELSE ToolResize(fs, pos, container, tool)
    IN  IF r.ok /\ r.fssize # pos
        THEN [r EXCEPT !.ok = FALSE, !.err = "AssertionFailed"]
        ELSE r

\* a reserve_end_area_nonrec that resizes to pos whatever the size is
FsResizeToPos(fs, pos0, container, tool) ==
    [resized |-> TRUE]
        @@ mount_and_resize(fs, align(pos0, fs.block_size), container, tool)

\* Filesystem::reserve_end_area_nonrec
FsReserve(fs, pos0, container, tool) ==
    LET pos == align(pos0, fs.block_size)
    IN  IF fs.fssize <= pos
        THEN [ok |-> TRUE, err |-> "", fssize |-> fs.fssize, resized |-> FALSE]
        ELSE IF ~ can_shrink(fs.kind)
        THEN [ok |-> FALSE, err |-> "CantShrink", fssize |-> fs.fssize,
              resized |-> FALSE]
        ELSE [resized |-> TRUE] @@ mount_and_resize(fs, pos, container, tool)

\* Filesystem::grow_nonrec
FsGrow(fs, upper_bound, container, tool) ==
    LET newsize == align(upper_bound, fs.block_size)
    IN  IF ~ (fs.fssize <= newsize)
        THEN [ok |-> FALSE, err |-> "AssertionFailed", fssize |-> fs.fssize,
              resized |-> FALSE]
        ELSE IF fs.fssize = newsize
        THEN [ok |-> TRUE, err |-> "", fssize |-> fs.fssize, resized |-> FALSE]
        ELSE [resized |-> TRUE] @@ mount_and_resize(fs, newsize, container, tool)

\* LUKS::reserve_end_area_nonrec: cryptsetup resize --size=<sectors>, then the
\* comparison with the size of the activated device.  cryptsetup maps the
\* whole device when the size is 0 and refuses a size beyond the device.
LuksReserve(w, pos, container, tool) ==
    LET inner_size == Wrap(pos - w.offset)
    IN  IF inner_size % SECTOR # 0
        THEN [ok |-> FALSE, err |-> "AssertionFailed", size |-> w.size,
              resized |-> FALSE]
        ELSE IF tool = "fail" \/ inner_size > container - w.offset
        THEN [ok |-> FALSE, err |-> "ExternalCommandFailed", size |-> w.size,
              resized |-> FALSE]
        ELSE IF inner_size = 0
        THEN [ok |-> container = w.offset,
              err |-> IF container = w.offset THEN "" ELSE "LuksResizeFailed",
              size |-> container - w.offset, resized |-> TRUE]
        ELSE [ok |-> TRUE, err |-> "", size |-> inner_size, resized |-> TRUE]

\* BCacheBacking::grow_nonrec: the write of "max" to bcache/resize may not
\* have taken effect when the size of the cached device is read back.
BcacheGrow(w, upper_bound, container, tool) ==
    IF upper_bound # container
    THEN [ok |-> FALSE, err |-> "NotImplemented", size |-> w.size,
          resized |-> FALSE]
    ELSE IF tool = "fail"
    THEN [ok |-> FALSE, err |-> "BcacheResizeFailed", size |-> w.size,
          resized |-> TRUE]
    ELSE [ok |-> TRUE, err |-> "", size |-> upper_bound - w.offset,
          resized |-> TRUE]

\* The sizes a stack operation can change: the filesystem's and the size of
\* the device each wrapper exposes.
LayerSizes(layers, fs) ==
    [i \in 1..(Len(layers) + 1) |->
        IF i <= Len(layers) THEN layers[i].size ELSE fs.fssize]

KindOfLayer(layers, fs, i) == IF i <= Len(layers) THEN layers[i].kind ELSE fs.kind

\* A caller enters stack_reserve_end_area(pos) or stack_grow(pos).
StackCall(op, pos) ==
    /\ st_op' = op
    /\ st_pos' = pos
    /\ st_status' = IF op = "reserve" THEN "entry" ELSE "walk"
    /\ st_idx' = 1
    /\ st_cur' = pos
    /\ st_log' = << >>
    /\ st_snap' = LayerSizes(st_layers, st_fs)

\* BlockStack::stack_reserve_end_area, lines 97-119: the check made before
\* the walk.  bail() of either ProgressListener ends the operation.
StackReserveEntry ==
    /\ st_status = "entry"
    /\ st_op = "reserve"
    /\ LET inner_pos == align(Wrap(st_pos - overhead(st_layers)), st_fs.block_size)
       IN  IF st_fs.fssize > inner_pos /\ ~ can_shrink(st_fs.kind)
           THEN /\ st_status' = "aborted"
                /\ st_err' = "CantShrink"
           ELSE /\ st_status' = "walk"
                /\ st_err' = st_err
    /\ UNCHANGED <<st_layers, st_fs, st_devsize, st_op, st_pos, st_idx, st_cur,
                   st_log, st_snap, st_active>>
    /\ UNCHANGED nonStackVars

ForwardPositions(layers, pos) == iter_pos(layers, pos)

\* the positions stack_reserve_end_area walks: iter_pos(pos), reversed
ReservePositions(layers, pos) == Reverse(iter_pos(layers, pos))

\* One iteration of the loop of lines 125-131.
StackReserveStep(tool) ==
    /\ st_status = "walk"
    /\ st_op = "reserve"
    /\ LET positions == ReservePositions(st_layers, st_pos)
           e == positions[st_idx]
           i == e.layer
           container == ContainerSize(st_layers, st_devsize, i)
           kind == KindOfLayer(st_layers, st_fs, i)
           last == st_idx = Len(positions)
       IN  IF i > Len(st_layers)
           THEN LET r == FsReserve(st_fs, e.pos, container, tool)
                IN  /\ st_fs' = [st_fs EXCEPT !.fssize = r.fssize]
                    /\ st_layers' = st_layers
                    /\ st_log' = Append(st_log, [layer |-> i, kind |-> kind,
                                     pos |-> e.pos, resized |-> r.resized])
                    /\ st_status' = IF ~ r.ok THEN "aborted"
                                    ELSE IF last THEN "done" ELSE "walk"
                    /\ st_err' = r.err
           ELSE IF kind = "luks"
           THEN LET r == LuksReserve(st_layers[i], e.pos, container, tool)
                IN  /\ st_layers' = [st_layers EXCEPT ![i].size = r.size]
                    /\ st_fs' = st_fs
                    /\ st_log' = Append(st_log, [layer |-> i, kind |-> kind,
                                     pos |-> e.pos, resized |-> r.resized])
                    /\ st_status' = IF ~ r.ok THEN "aborted"
                                    ELSE IF last THEN "done" ELSE "walk"
                    /\ st_err' = r.err
           ELSE /\ tool = "ok"
                /\ st_status' = IF last THEN "done" ELSE "walk"
                /\ UNCHANGED <<st_layers, st_fs, st_log, st_err>>
    /\ st_idx' = st_idx + 1
    /\ UNCHANGED <<st_devsize, st_op, st_pos, st_cur, st_snap, st_active>>
    /\ UNCHANGED nonStackVars

\* One iteration of the loop of stack_grow, lines 80-89, or its last
\* statement, the filesystem's grow_nonrec of lines 91-93.
StackGrowStep(tool) ==
    /\ st_status = "walk"
    /\ st_op = "grow"
    /\ LET i == st_idx
           container == ContainerSize(st_layers, st_devsize, i)
           kind == KindOfLayer(st_layers, st_fs, i)
       IN  IF i > Len(st_layers)
           THEN LET r == FsGrow(st_fs, st_cur, container, tool)
                IN  /\ st_fs' = [st_fs EXCEPT !.fssize = r.fssize]
                    /\ st_layers' = st_layers
                    /\ st_cur' = st_cur
                    /\ st_log' = Append(st_log, [layer |-> i, kind |-> kind,
                                     pos |-> st_cur, resized |-> r.resized])
                    /\ st_status' = IF r.ok THEN "done" ELSE "aborted"
                    /\ st_err' = r.err
           ELSE LET r == IF kind = "luks"
                         THEN LuksReserve(st_layers[i], st_cur, container, tool)
                         ELSE BcacheGrow(st_layers[i], st_cur, container, tool)
                IN  /\ st_layers' = [st_layers EXCEPT ![i].size = r.size]
                    /\ st_fs' = st_fs
                    /\ st_cur' = IF r.ok THEN Wrap(st_cur - st_layers[i].offset)
                                 ELSE st_cur
                    /\ st_log' = Append(st_log, [layer |-> i, kind |-> kind,
                                     pos |-> st_cur, resized |-> r.resized])
                    /\ st_status' = IF r.ok THEN "walk" ELSE "aborted"
                    /\ st_err' = r.err
    /\ st_idx' = st_idx + 1
    /\ UNCHANGED <<st_devsize, st_op, st_pos, st_snap, st_active>>
    /\ UNCHANGED nonStackVars

-----------------------------------------------------------------------------
(* cmd_resize *)

DevKinds == {"partition", "lv", "disk"}
DevSizes == {16384, 20480}
NewSizes == {0, 4096, 9000, 12288, 14336, 16384, 24576}
LvExtents == {512, 4096}

\* align_up: round size up to a multiple of al
align_up(size, al) == ((size + al - 1) \div al) * al

\* The stacks get_block_stack finds: every wrapper maps the whole of the
\* device it sits on, and the filesystem lies within the innermost device.
RECURSIVE MkLayers(_, _)
MkLayers(kinds, container) ==
    IF kinds = << >> THEN << >>
    ELSE LET w == [kind |-> kinds[1], offset |-> OffsetOf(kinds[1]),
                   size |-> container - OffsetOf(kinds[1])]
         IN  << w >> \o MkLayers(Tail(kinds), w.size)

WrapperSeqs == UNION { [1..n -> WrapperKinds] : n \in 0..MaxWrappers }

InnermostSize(layers, devsize) ==
    IF layers = << >> THEN devsize ELSE layers[Len(layers)].size

\* the stack found on a device of one of the sizes devsizes, under one of
\* the wrapper sequences seqs
StackInitOn(devsizes, seqs) ==
    /\ st_devsize \in devsizes
    /\ \E kinds \in seqs :
           /\ st_layers = MkLayers(kinds, st_devsize)
           /\ InnermostSize(st_layers, st_devsize) >= 4096
    /\ \E kind \in FsKinds, full \in BOOLEAN :
           LET bs == BlockSizeOf(kind)
               inner == InnermostSize(st_layers, st_devsize)
           IN  st_fs = [kind |-> kind, block_size |-> bs,
                        fssize |-> IF full THEN align(inner, bs) ELSE 2 * bs]
    /\ st_fs.fssize <= InnermostSize(st_layers, st_devsize)
    /\ st_op = "none"
    /\ st_pos = 0
    /\ st_status = "idle"
    /\ st_idx = 0
    /\ st_cur = 0
    /\ st_log = << >>
    /\ st_snap = << >>
    /\ st_err = ""
    /\ st_active = TRUE

StackInit == StackInitOn(DevSizes, WrapperSeqs)

ResizeInit ==
    /\ RotIdle
    /\ UnitIdle
    /\ ConvIdle
    /\ StackInit
    /\ rz_pc = "start"
    /\ rz_newsize \in NewSizes
    /\ rz_delta = 0
    /\ rz_resize_device \in BOOLEAN
    /\ rz_devkind \in DevKinds
    /\ rz_log = << >>

\* BlockDevice::dev_resize: the size of the device afterwards, 0 - 1 when the
\* call throws.  part_resize is an empty function: a partition keeps its
\* size.  lvextend and lvreduce round the size up to the extent size pe.
dev_resize(devsize, devkind, newsize, tool, pe) ==
    IF devkind = "partition" THEN devsize
    ELSE IF devkind = "lv" /\ tool = "ok" THEN align_up(align_up(newsize, SECTOR), pe)
    ELSE 0 - 1

\* a cmd_resize that deactivates nothing before it shrinks the device
NeverDeactivate(devkind) == FALSE

\* cmd_resize, line 32: the stack is deactivated before the device is
\* shrunk when the device is a partition
MustDeactivate(devkind) == devkind = "partition"

\* the record of a dev_resize call that returned
DevResizeCall(shrink, before, after, active) ==
    [shrink |-> shrink, before |-> before, after |-> after,
     stack |-> st_status, steps |-> Len(st_log), op |-> st_op, active |-> active]

\* cmd_resize, lines 14-21
ResizeGrowDevice(tool, pe) ==
    /\ rz_pc = "start"
    /\ LET device_delta == rz_newsize - st_devsize
           r == dev_resize(st_devsize, rz_devkind, rz_newsize, tool, pe)
       IN  /\ rz_delta' = device_delta
           /\ IF device_delta > 0 /\ rz_resize_device
              THEN IF r < 0
                   THEN /\ rz_pc' = "aborted"
                        /\ st_err' = "DeviceResizeFailed"
                        /\ UNCHANGED <<rz_newsize, st_devsize, rz_log>>
                   ELSE /\ rz_pc' = "read"
                        /\ st_devsize' = r
                        /\ rz_newsize' = r
                        /\ st_err' = st_err
                        /\ rz_log' = Append(rz_log,
                               DevResizeCall(FALSE, st_devsize, r, st_active))
              ELSE /\ tool = "ok" /\ pe = SECTOR
                   /\ rz_pc' = "read"
                   /\ UNCHANGED <<rz_newsize, st_devsize, st_err, rz_log>>
    /\ UNCHANGED <<rz_resize_device, rz_devkind>>
    /\ UNCHANGED <<st_layers, st_fs, st_op, st_pos, st_status, st_idx, st_cur,
                   st_log, st_snap, st_active>>
    /\ UNCHANGED <<rotVars, unitVars, cvVars>>

\* cmd_resize, lines 23-26: read_superblocks, the assertion, and the entry
\* into stack_resize, which picks stack_reserve_end_area or stack_grow
ResizeCallStack ==
    /\ rz_pc = "read"
    /\ IF ~ (total_data_size(st_layers, st_fs) <= st_devsize)
       THEN /\ rz_pc' = "aborted"
            /\ st_err' = "AssertionFailed"
            /\ UNCHANGED <<st_op, st_pos, st_status, st_idx, st_cur, st_log, st_snap>>
       ELSE /\ rz_pc' = "stack"
            /\ st_err' = st_err
            /\ StackCall(IF rz_newsize - total_data_size(st_layers, st_fs) < 0
                         THEN "reserve" ELSE "grow", rz_newsize)
    /\ UNCHANGED <<rz_newsize, rz_delta, rz_resize_device, rz_devkind, rz_log>>
    /\ UNCHANGED <<st_layers, st_fs, st_devsize, st_active>>
    /\ UNCHANGED <<rotVars, unitVars, cvVars>>

\* cmd_resize, lines 28-38, once stack_resize has returned
ResizeShrinkDevice(tool, pe) ==
    /\ rz_pc = "stack"
    /\ st_status = "done"
    /\ LET tds == total_data_size(st_layers, st_fs)
           r == dev_resize(st_devsize, rz_devkind, tds, tool, pe)
       IN  IF rz_delta < 0 /\ rz_resize_device
           THEN /\ st_active' = IF MustDeactivate(rz_devkind) THEN FALSE ELSE st_active
                /\ IF r < 0
                   THEN /\ rz_pc' = "aborted"
                        /\ st_err' = "DeviceResizeFailed"
                        /\ UNCHANGED <<st_devsize, rz_log>>
                   ELSE /\ rz_pc' = "done"
                        /\ st_devsize' = r
                        /\ st_err' = st_err
                        /\ rz_log' = Append(rz_log,
                               DevResizeCall(TRUE, st_devsize, r, st_active'))
           ELSE /\ tool = "ok" /\ pe = SECTOR
                /\ rz_pc' = "done"
                /\ UNCHANGED <<st_devsize, st_err, st_active, rz_log>>
    /\ st_status' = "idle"
    /\ UNCHANGED <<rz_newsize, rz_delta, rz_resize_device, rz_devkind>>
    /\ UNCHANGED <<st_layers, st_fs, st_op, st_pos, st_idx, st_cur, st_log, st_snap>>
    /\ UNCHANGED <<rotVars, unitVars, cvVars>>

ResizeNext ==
    \/ \E tool \in ToolOutcomes, pe \in LvExtents : ResizeGrowDevice(tool, pe)
    \/ ResizeCallStack
    \/ StackReserveEntry
    \/ \E tool \in ToolOutcomes : StackReserveStep(tool)
    \/ \E tool \in ToolOutcomes : StackGrowStep(tool)
    \/ \E tool \in ToolOutcomes, pe \in LvExtents : ResizeShrinkDevice(tool, pe)

SpecResize == ResizeInit /\ [][ResizeNext]_vars

-----------------------------------------------------------------------------
(* Device content.  A device is a function from the byte offsets           *)
(* 0..size-1 to bytes.                                                     *)

DevLen(bytes) == Cardinality(DOMAIN bytes)

\* pread(fd, buf, len, off): the bytes at [off, off + len)
PRead(bytes, off, len) == [i \in 0..(len - 1) |-> bytes[off + i]]

\* pwrite(fd, buf, len, off): the content afterwards
PWrite(bytes, buf, len, off) ==
    [i \in DOMAIN bytes |-> IF i >= off /\ i < off + len THEN buf[i - off] ELSE bytes[i]]

\* whether pwrite / pread of len bytes at off is served in full: off is an
\* off_t, negative when the uint64_t passed has its top bit set
IoFits(bytes, off, len) == off < Word \div 2 /\ off + len <= DevLen(bytes)

\* htobe32: the four bytes of v, most significant first
htobe32(v) ==
    [i \in 0..3 |-> IF i = 0 THEN (v \div 16777216) % 256
                    ELSE IF i = 1 THEN (v \div 65536) % 256
                    ELSE IF i = 2 THEN (v \div 256) % 256
                    ELSE v % 256]

\* be32toh of the four bytes at off
be32toh(bytes, off) ==
    bytes[off] * 16777216 + bytes[off + 1] * 65536 + bytes[off + 2] * 256 + bytes[off + 3]

-----------------------------------------------------------------------------
(* LUKS: the version 1 header and the operations of container.cpp on it    *)

LUKS_MAGIC == <<76, 85, 75, 83, 186, 190>>     \* "LUKS\xBA\xBE"

\* bytes that are neither header fields nor written by the conversion
Filler(i) == 1 + (i % 251)

\* the offset of byte i within its 48-byte key slot record (slots start at 208)
SlotField(i) == (i - 208) % 48

\* The LUKS devices of the initial states: payload_sectors and key_bytes in
\* the header, key slot 0 at sector ko and the other slots at sector 1,
\* every slot with 4000 stripes.
LuksImage(payload_sectors, key_bytes, ko, size) ==
    [i \in 0..(size - 1) |->
        IF i < 6 THEN LUKS_MAGIC[i + 1]
        ELSE IF i < 8 THEN i - 6
        ELSE IF i >= 104 /\ i < 108 THEN htobe32(payload_sectors)[i - 104]
        ELSE IF i >= 108 /\ i < 112 THEN htobe32(key_bytes)[i - 108]
        ELSE IF i >= 208 /\ i < 592 /\ SlotField(i) >= 40
        THEN IF SlotField(i) < 44
             THEN htobe32(IF i < 256 THEN ko ELSE 1)[SlotField(i) - 40]
             ELSE htobe32(4000)[SlotField(i) - 44]
        ELSE Filler(i)]

\* LUKS::read_superblock: offset = 512 * "Payload offset" of luksDump, which
\* cryptsetup reads from the header; 0 makes it throw
read_superblock(bytes) ==
    IF DevLen(bytes) < 592 \/ PRead(bytes, 0, 6) # [i \in 0..5 |-> LUKS_MAGIC[i + 1]]
    THEN 0
    ELSE be32toh(bytes, 104) * SECTOR

\* a loop that keeps the key_end of the slot read last
KeySlotsEndLast(bytes, key_bytes, k) ==
    LET key_offset == be32toh(bytes, 208 + 48 * k + 40)
        key_stripes == be32toh(bytes, 208 + 48 * k + 44)
        key_end == key_offset * SECTOR + key_stripes * key_bytes
    IN  IF key_stripes # 4000 THEN 0 - 1
        ELSE IF key_end > 592 THEN key_end ELSE 592

\* the loop of read_superblock_ll over key slots 0..k: the largest key_end,
\* 592 at least; 0 - 1 when a slot does not have 4000 stripes
RECURSIVE KeySlotsEnd(_, _, _)
KeySlotsEnd(bytes, key_bytes, k) ==
    IF k < 0 THEN 592
    ELSE LET rest == KeySlotsEnd(bytes, key_bytes, k - 1)
             key_offset == be32toh(bytes, 208 + 48 * k + 40)
             key_stripes == be32toh(bytes, 208 + 48 * k + 44)
             key_end == key_offset * SECTOR + key_stripes * key_bytes
         IN  IF rest < 0 \/ key_stripes # 4000 THEN 0 - 1
             ELSE IF key_end > rest THEN key_end ELSE rest

\* LUKS::read_superblock_ll(fd): sb_end, or the error thrown
read_superblock_ll(bytes, offset, fd) ==
    IF fd # "open" \/ DevLen(bytes) < 592
    THEN [ok |-> FALSE, err |-> "ReadFailed", sb_end |-> 0]
    ELSE IF PRead(bytes, 0, 6) # [i \in 0..5 |-> LUKS_MAGIC[i + 1]]
            \/ bytes[6] * 256 + bytes[7] # 1
    THEN [ok |-> FALSE, err |-> "InvalidLuksHeader", sb_end |-> 0]
    ELSE LET payload_start_sectors == be32toh(bytes, 104)
             key_bytes == be32toh(bytes, 108)
             sb_end_tmp == KeySlotsEnd(bytes, key_bytes, 7)
             ll_offset == payload_start_sectors * SECTOR
         IN  IF sb_end_tmp < 0
             THEN [ok |-> FALSE, err |-> "UnexpectedKeyStripes", sb_end |-> 0]
             ELSE IF ll_offset # offset
             THEN [ok |-> FALSE, err |-> "OffsetMismatch", sb_end |-> 0]
             ELSE IF ll_offset < sb_end_tmp
             THEN [ok |-> FALSE, err |-> "PayloadBeforeSbEnd", sb_end |-> 0]
             ELSE [ok |-> TRUE, err |-> "", sb_end |-> sb_end_tmp]

OldOffsetSectors(offset, shift_by) == offset \div SECTOR

\* shift_sb, lines 288-289: the payload offset written into the shifted header
NewOffsetSectors(offset, shift_by) == offset \div SECTOR - shift_by \div SECTOR

CombinedUnshifted(sb, shift_by, sb_end) ==
    [i \in 0..(shift_by + sb_end - 1) |-> IF i < sb_end THEN sb[i] ELSE 0]

\* shift_sb, lines 298-303: shift_by zero bytes, then the edited superblock
Combined(sb, shift_by, sb_end) ==
    [i \in 0..(shift_by + sb_end - 1) |-> IF i < shift_by THEN 0 ELSE sb[i - shift_by]]

\* LUKS::shift_sb(fd, shift_by): the device content it leaves, or the error
shift_sb(bytes, luks, shift_by) ==
    IF shift_by = 0 \/ shift_by % SECTOR # 0 \/ luks.offset % SECTOR # 0
    THEN [ok |-> FALSE, err |-> "InvalidShift", bytes |-> bytes]
    ELSE IF Wrap(luks.sb_end + shift_by) > luks.offset
    THEN [ok |-> FALSE, err |-> "NoSpaceToShift", bytes |-> bytes]
    ELSE IF ~ IoFits(bytes, 0, shift_by + luks.sb_end)
    THEN [ok |-> FALSE, err |-> "IoFailed", bytes |-> bytes]
    ELSE LET sb == PRead(bytes, 0, luks.sb_end)
             new_offset_sectors == htobe32(NewOffsetSectors(luks.offset, shift_by))
             edited == PWrite(sb, new_offset_sectors, 4, 104)
             combined == Combined(edited, shift_by, luks.sb_end)
         IN  [ok |-> TRUE, err |-> "",
              bytes |-> PWrite(bytes, combined, shift_by + luks.sb_end, 0)]

-----------------------------------------------------------------------------
(* SyntheticDevice and make_bcache_sb *)

BCACHE_MAGIC ==
    <<198, 133, 115, 246, 78, 26, 69, 202, 130, 101, 245, 127, 72, 186, 109, 129>>

UbOutcomes == {"crash", "junk"}     \* what reading past the end of a vector does

\* what such a read finds in memory
Junk(i) == 165

\* The bytes make-bcache writes at [0, bsb_size) of the synthetic device:
\* the superblock at 4096, with BCACHE_MAGIC at 4096 + 24.
ToolImage(bsb_size) ==
    [i \in 0..(bsb_size - 1) |->
        IF i >= 4096 + 24 /\ i < 4096 + 40 THEN BCACHE_MAGIC[i - 4096 - 23] ELSE 0]

\* the exit_callback set by the constructor of SyntheticDeviceContext
exit_callback(res) == res \ {"synth", "rozeros", "loop", "tempfile"}

\* SyntheticDeviceContext::cleanup: exit_callback removes the dm devices,
\* detaches the loop device and unlinks the temporary file; the file is
\* read into device->data afterwards, if it still exists.
cleanup(ctx) ==
    LET res == exit_callback(ctx.res)
    IN  [ctx EXCEPT !.res = res,
                    !.data = IF "tempfile" \in res THEN ctx.file ELSE ctx.data]

\* how the construction of a SyntheticDeviceContext and the tool run on it
\* end: "losetup", "mk_dm1" and "mk_dm2" name the command of the
\* constructor that fails, "fail" a failure of the tool
SynthOutcomes == {"ok", "fail", "losetup", "mk_dm1", "mk_dm2"}

\* the constructor of SyntheticDeviceContext: what exists when it returns or
\* throws.  A failure up to losetup unlinks the temporary file; a failure of
\* mk_dm leaves what was acquired before it.
SyntheticDeviceContext(hdr, rz, end, outcome) ==
    IF outcome = "losetup"
    THEN [ok |-> FALSE, err |-> "ExternalCommandFailed", res |-> {}]
    ELSE IF hdr % SECTOR # 0 \/ rz % SECTOR # 0 \/ end % SECTOR # 0
    THEN [ok |-> FALSE, err |-> "AssertionFailed", res |-> {"tempfile", "loop"}]
    ELSE IF outcome = "mk_dm1"
    THEN [ok |-> FALSE, err |-> "ExternalCommandFailed", res |-> {"tempfile", "loop"}]
    ELSE IF outcome = "mk_dm2"
    THEN [ok |-> FALSE, err |-> "ExternalCommandFailed",
          res |-> {"tempfile", "loop", "rozeros"}]
    ELSE [ok |-> TRUE, err |-> "", res |-> {"tempfile", "loop", "rozeros", "synth"}]

\* make_bcache_sb(bsb_size, data_size, join): the SyntheticDevice returned.
\* result->data is copied from the context before the context is destroyed.
make_bcache_sb(bsb_size, data_size, tool) ==
    LET c == SyntheticDeviceContext(bsb_size, data_size, 0, tool)
    IN  IF ~ c.ok
        THEN [ok |-> FALSE, err |-> c.err, synth |-> NoSynth, res |-> c.res]
        ELSE LET ctx == [res |-> c.res, file |-> ToolImage(bsb_size), data |-> << >>]
                 result == [hdr |-> bsb_size, rz |-> data_size, end |-> 0,
                            data |-> ctx.data]
             IN  IF tool = "fail"
                 THEN [ok |-> FALSE, err |-> "ExternalCommandFailed",
                       synth |-> NoSynth, res |-> cleanup(ctx).res]
                 ELSE [ok |-> TRUE, err |-> "", synth |-> result,
                       res |-> cleanup(ctx).res]

\* SyntheticDevice::copy_to_physical(dev_fd, shift_by, reserved_area,
\* other_device) on the device content bytes
copy_to_physical(syn, bytes, shift_by, reserved_area, other_device, ndebug, ub) ==
    LET filled == DevLen(syn.data) = syn.hdr + syn.end
        start_data == [i \in 0..(syn.hdr - 1) |->
                          IF filled THEN syn.data[i] ELSE Junk(i)]
        end_data == [i \in 0..(syn.end - 1) |->
                        IF filled THEN syn.data[syn.hdr + i] ELSE Junk(syn.hdr + i)]
        wrend_offset == Wrap(syn.hdr + syn.rz + shift_by)
        size == Wrap(syn.hdr + syn.rz + syn.end)
        asserts == /\ filled
                   /\ reserved_area # 0 =>
                          (shift_by >= reserved_area /\ wrend_offset >= reserved_area)
                   /\ ~ other_device =>
                          /\ Wrap(shift_by + syn.hdr) <= size
                          /\ syn.end # 0 => Wrap(wrend_offset + syn.end) <= size
    IN  IF ~ asserts /\ ~ ndebug
        THEN [ok |-> FALSE, err |-> "AssertionFailed", bytes |-> bytes]
        ELSE IF ~ filled /\ ub = "crash"
        THEN [ok |-> FALSE, err |-> "Crash", bytes |-> bytes]
        ELSE IF ~ IoFits(bytes, shift_by, syn.hdr)
        THEN [ok |-> FALSE, err |-> "WriteFailed", bytes |-> bytes]
        ELSE LET b1 == PWrite(bytes, start_data, syn.hdr, shift_by)
             IN  IF syn.end = 0 THEN [ok |-> TRUE, err |-> "", bytes |-> b1]
                 ELSE IF ~ IoFits(bytes, wrend_offset, syn.end)
                 THEN [ok |-> FALSE, err |-> "WriteFailed", bytes |-> b1]
                 ELSE [ok |-> TRUE, err |-> "",
                       bytes |-> PWrite(b1, end_data, syn.end, wrend_offset)]

-----------------------------------------------------------------------------
(* luks_to_bcache *)

BCACHE_SHIFT == 512 * 16       \* shift_by: the smallest bcache data offset

LuksPayloads == {17, 18, 26}   \* payload offset of the initial headers, sectors
LuksKeyBytes == {0, 1}
LuksKeyOffsets == {1, 2}
LuksDataSectors == {2}         \* ciphertext sectors after the payload offset

Step(name, kind) == [step |-> name, kind |-> kind]

\* the errors that end the process on the spot: a failed assertion and a
\* crash; every other error is an exception that propagates
ProcessDies == {"AssertionFailed", "Crash"}

\* the descriptor of open_excl_ctx once err has ended the command: the
\* destructor of ExclusiveFileDescriptor closes it when an exception unwinds
ReleasedFd(err) == IF err \in ProcessDies THEN "open" ELSE "closed"

\* the log of writes after a statement that wrote to the device when wrote
\* holds, fd being the state of the exclusive descriptor at that moment
LogWrite(wrote, name, fd) ==
    cv_wlog' = IF wrote THEN Append(cv_wlog, [step |-> name, fd |-> fd]) ELSE cv_wlog

ConvAbort(err) ==
    /\ cv_pc' = "aborted"
    /\ cv_err' = err

LuksInit ==
    /\ RotIdle
    /\ UnitIdle
    /\ StackIdle
    /\ ResizeIdle
    /\ cv_cmd = "luks_to_bcache"
    /\ cv_pc = "deactivate"
    /\ cv_trace = << >>
    /\ cv_wlog = << >>
    /\ cv_ndebug \in BOOLEAN
    /\ cv_fd = "closed"
    /\ cv_synth = NoSynth
    /\ cv_res = {}
    /\ \E p \in LuksPayloads, kb \in LuksKeyBytes, ko \in LuksKeyOffsets,
          d \in LuksDataSectors :
           cv_bytes = LuksImage(p, kb, ko, (p + d) * SECTOR)
    /\ cv_prev = cv_bytes
    /\ cv_orig = cv_bytes
    /\ cv_luks \in [offset : {0}, sb_end : {0}, active : BOOLEAN]
    /\ cv_lvm = NoLvm
    /\ cv_err = ""

\* luks_to_bcache, lines 157-158: LUKS luks(device); luks.deactivate()
LuksDeactivate(tool) ==
    /\ cv_cmd = "luks_to_bcache"
    /\ cv_pc = "deactivate"
    /\ LET offset == read_superblock(cv_bytes)
       IN  IF offset = 0
           THEN /\ tool = "ok"
                /\ ConvAbort("NoLuksOffset")
                /\ UNCHANGED <<cv_luks, cv_trace>>
           ELSE IF cv_luks.active /\ tool = "fail"
           THEN /\ ConvAbort("ExternalCommandFailed")
                /\ cv_luks' = [cv_luks EXCEPT !.offset = offset]
                /\ UNCHANGED cv_trace
           ELSE /\ cv_luks.active \/ tool = "ok"
                /\ cv_pc' = "open"
                /\ cv_luks' = [cv_luks EXCEPT !.offset = offset, !.active = FALSE]
                /\ cv_trace' = Append(cv_trace, Step("luks.deactivate", "deactivate"))
                /\ UNCHANGED cv_err
    /\ UNCHANGED <<cv_cmd, cv_wlog, cv_ndebug, cv_fd, cv_synth, cv_res, cv_bytes, cv_prev,
                   cv_orig, cv_lvm>>
    /\ UNCHANGED <<rotVars, unitVars, stVars, rzVars>>

\* luks_to_bcache, lines 160-166: open_excl, read_superblock,
\* read_superblock_ll and the assertion on the room before the payload
LuksOpenRead(tool) ==
    /\ cv_cmd = "luks_to_bcache"
    /\ cv_pc = "open"
    /\ LET fd == IF tool = "ok" THEN "open" ELSE "closed"
           offset == read_superblock(cv_bytes)
           ll == read_superblock_ll(cv_bytes, offset, fd)
       IN  /\ cv_fd' = fd
           /\ cv_luks' = [cv_luks EXCEPT !.offset = offset, !.sb_end = ll.sb_end]
           /\ IF ~ ll.ok THEN ConvAbort(ll.err)
              ELSE IF ~ (Wrap(ll.sb_end + BCACHE_SHIFT) <= offset) /\ ~ cv_ndebug
              THEN ConvAbort("AssertionFailed")
              ELSE cv_pc' = "make" /\ UNCHANGED cv_err
    /\ UNCHANGED <<cv_cmd, cv_wlog, cv_trace, cv_ndebug, cv_synth, cv_res, cv_bytes, cv_prev,
                   cv_orig, cv_lvm>>
    /\ UNCHANGED <<rotVars, unitVars, stVars, rzVars>>

\* luks_to_bcache, lines 168-169: make_bcache_sb(shift_by, data_size, join)
LuksMakeSb(tool) ==
    /\ cv_cmd = "luks_to_bcache"
    /\ cv_pc = "make"
    /\ LET data_size == Wrap(DevLen(cv_bytes) - BCACHE_SHIFT)
           r == make_bcache_sb(BCACHE_SHIFT, data_size, tool)
       IN  /\ cv_synth' = r.synth
           /\ cv_res' = r.res
           /\ cv_trace' = Append(cv_trace, Step("make_bcache_sb", "prepare"))
           /\ IF r.ok THEN cv_pc' = "shift" /\ UNCHANGED cv_err
              ELSE ConvAbort(r.err)
    /\ UNCHANGED <<cv_cmd, cv_wlog, cv_ndebug, cv_fd, cv_bytes, cv_prev, cv_orig, cv_luks,
                   cv_lvm>>
    /\ UNCHANGED <<rotVars, unitVars, stVars, rzVars>>

\* luks_to_bcache, line 175: luks.shift_sb(dev_fd, shift_by)
LuksShiftSb ==
    /\ cv_cmd = "luks_to_bcache"
    /\ cv_pc = "shift"
    /\ LET r == shift_sb(cv_bytes, cv_luks, BCACHE_SHIFT)
       IN  /\ cv_bytes' = r.bytes
           /\ cv_prev' = cv_bytes
           /\ cv_trace' = Append(cv_trace, Step("shift_sb", "copy"))
           /\ IF r.ok
              THEN /\ cv_pc' = "copy"
                   /\ cv_luks' = [cv_luks EXCEPT !.sb_end = 0]
                   /\ UNCHANGED cv_err
              ELSE /\ ConvAbort(r.err)
                   /\ UNCHANGED cv_luks
    /\ LogWrite(cv_pc' = "copy", "shift_sb", cv_fd)
    /\ UNCHANGED <<cv_cmd, cv_ndebug, cv_fd, cv_synth, cv_res, cv_orig, cv_lvm>>
    /\ UNCHANGED <<rotVars, unitVars, stVars, rzVars>>

\* luks_to_bcache, lines 182-187: synth_bdev->copy_to_physical(dev_fd), close
LuksCopy(ub) ==
    /\ cv_cmd = "luks_to_bcache"
    /\ cv_pc = "copy"
    /\ LET r == copy_to_physical(cv_synth, cv_bytes, 0, 0, FALSE, cv_ndebug, ub)
       IN  /\ cv_bytes' = r.bytes
           /\ cv_prev' = cv_bytes
           /\ cv_trace' = Append(cv_trace, Step("copy_to_physical", "copy"))
           /\ IF r.ok
              THEN /\ cv_pc' = "done"
                   /\ cv_fd' = "closed"
                   /\ UNCHANGED cv_err
              ELSE /\ ConvAbort(r.err)
                   /\ UNCHANGED cv_fd
    /\ LogWrite(cv_pc' = "done" \/ cv_bytes' # cv_bytes, "copy_to_physical", cv_fd)
    /\ UNCHANGED <<cv_cmd, cv_ndebug, cv_synth, cv_res, cv_orig, cv_luks, cv_lvm>>
    /\ UNCHANGED <<rotVars, unitVars, stVars, rzVars>>

LuksNext ==
    \/ \E tool \in ToolOutcomes : LuksDeactivate(tool)
    \/ \E tool \in ToolOutcomes : LuksOpenRead(tool)
    \/ \E tool \in SynthOutcomes : LuksMakeSb(tool)
    \/ LuksShiftSb
    \/ \E ub \in UbOutcomes : LuksCopy(ub)

SpecLuksToBcache == LuksInit /\ [][LuksNext]_vars

-----------------------------------------------------------------------------
(* cmd_to_lvm.  The device is followed by 512-byte sector here: every      *)
(* offset and length the pipeline uses is a whole number of sectors.       *)
(* Sector k of the device holds OrigSector(k) before the conversion.       *)

LvmDevSizes == {8192, 12288, 12800, 16384}

LvmPeSizes == {2048, 4096}

LvmWrapperSeqs == {<< >>, <<"luks">>}

OrigSector(k) == k + 1

\* sector k of the label and metadata area pvcreate and vgcfgrestore write
MetaSector(k) == 0 - (k + 1)

\* the label pvcreate leaves in sector 1, which superblock_type() reports
\* as LVM2_member
LABELONE == MetaSector(1)

ExtKinds == {"ext4"}

\* e2fsck accepts a device that carries an ext filesystem itself
FsckAccepts(layers, fs) == layers = << >> /\ fs.kind \in ExtKinds

\* a layout that maps logical extent i to physical extent i
LvmLayoutUnrotated(pe_sectors, pe_count) ==
    [extent_size |-> pe_sectors, pe_start |-> pe_sectors, pe_count |-> pe_count,
     segments |-> << [start_extent |-> 0, extent_count |-> 1,
                      pv |-> "pv0", off |-> 0],
                     [start_extent |-> 1, extent_count |-> Wrap(pe_count - 1),
                      pv |-> "pv0", off |-> 1] >>]

\* the metadata text of lines 528-573
LvmLayout(pe_sectors, pe_count) ==
    [extent_size |-> pe_sectors, pe_start |-> pe_sectors, pe_count |-> pe_count,
     segments |-> << [start_extent |-> 0, extent_count |-> 1,
                      pv |-> "pv0", off |-> Wrap(pe_count - 1)],
                     [start_extent |-> 1, extent_count |-> Wrap(pe_count - 1),
                      pv |-> "pv0", off |-> 0] >>]

\* vgcfgrestore accepts metadata whose segments are not empty and lie on
\* the physical volume, and a volume that lies on the device
LayoutValid(layout, sectors) ==
    /\ layout.pe_count >= 1
    /\ layout.pe_start + layout.pe_count * layout.extent_size <= sectors
    /\ \A i \in 1..Len(layout.segments) :
           /\ layout.segments[i].extent_count >= 1
           /\ layout.segments[i].off + layout.segments[i].extent_count
                  <= layout.pe_count

\* the segment holding logical extent i
SegmentOf(layout, i) ==
    CHOOSE s \in 1..Len(layout.segments) :
        /\ layout.segments[s].start_extent <= i
        /\ i < layout.segments[s].start_extent + layout.segments[s].extent_count

\* the first device sector of logical extent i, as device-mapper maps it
LvExtentSector(layout, i) ==
    LET seg == layout.segments[SegmentOf(layout, i)]
    IN  layout.pe_start + (seg.off + (i - seg.start_extent)) * layout.extent_size

\* the sectors logical extent i of the volume reads
LvExtentRead(bytes, layout, i) ==
    PRead(bytes, LvExtentSector(layout, i), layout.extent_size)

ToLvmInit ==
    /\ RotIdle
    /\ UnitIdle
    /\ ResizeIdle
    /\ StackInitOn(LvmDevSizes, LvmWrapperSeqs)
    /\ cv_cmd = "to_lvm"
    /\ cv_pc = "start"
    /\ cv_trace = << >>
    /\ cv_wlog = << >>
    /\ cv_ndebug \in BOOLEAN
    /\ cv_fd = "closed"
    /\ cv_synth = NoSynth
    /\ cv_res = {}
    /\ \E pv \in BOOLEAN :
           cv_bytes = [k \in 0..(bytes_to_sector(st_devsize) - 1) |->
                          IF pv /\ k = 1 THEN LABELONE ELSE OrigSector(k)]
    /\ cv_prev = << >>
    /\ cv_orig = cv_bytes
    /\ cv_luks = NoLuks
    /\ \E pe \in LvmPeSizes : cv_lvm = [NoLvm EXCEPT !.pe_size = pe]
    /\ cv_err = ""

\* cmd_to_lvm, lines 322-417: pvremove on a device that is a physical volume
\* already, get_block_stack, the extent arithmetic and its assertions
ToLvmStart(tool) ==
    /\ cv_cmd = "to_lvm"
    /\ cv_pc = "start"
    /\ LET pe_size == cv_lvm.pe_size
           was_pv == cv_bytes[1] = LABELONE
           pe_count == Wrap(st_devsize \div pe_size - 1)
           pe_newpos == Wrap(pe_count * pe_size)
       IN  IF was_pv /\ tool = "fail"
           THEN /\ ConvAbort("ExternalCommandFailed")
                /\ UNCHANGED <<cv_bytes, cv_lvm>>
           ELSE IF was_pv
           THEN /\ ConvAbort("UnsupportedSuperblock")
                /\ cv_bytes' = [cv_bytes EXCEPT ![1] = 0]
                /\ UNCHANGED cv_lvm
           ELSE /\ tool = "ok"
                /\ UNCHANGED cv_bytes
                /\ IF ~ cv_ndebug /\ pe_size < 4096
                   THEN /\ ConvAbort("AssertionFailed")
                        /\ UNCHANGED cv_lvm
                   ELSE /\ cv_pc' = "fsck"
                        /\ cv_lvm' = [cv_lvm EXCEPT !.pe_count = pe_count,
                                                    !.pe_newpos = pe_newpos]
                        /\ UNCHANGED cv_err
    /\ LogWrite(cv_bytes' # cv_bytes, "pvremove", "closed")
    /\ UNCHANGED <<cv_cmd, cv_trace, cv_ndebug, cv_fd, cv_synth, cv_res, cv_prev,
                   cv_orig, cv_luks>>
    /\ UNCHANGED <<rotVars, unitVars, stVars, rzVars>>

\* cmd_to_lvm, lines 419-429: read_superblocks and e2fsck -f -y
ToLvmFsck(tool) ==
    /\ cv_cmd = "to_lvm"
    /\ cv_pc = "fsck"
    /\ IF tool = "ok" /\ FsckAccepts(st_layers, st_fs)
       THEN /\ cv_pc' = "reserve"
            /\ UNCHANGED cv_err
       ELSE ConvAbort("FsckFailed")
    /\ UNCHANGED <<cv_cmd, cv_wlog, cv_trace, cv_ndebug, cv_fd, cv_synth, cv_res, cv_bytes,
                   cv_prev, cv_orig, cv_luks, cv_lvm>>
    /\ UNCHANGED <<rotVars, unitVars, stVars, rzVars>>

\* a cmd_to_lvm that deactivates the stack before it shrinks it
ToLvmDrainThenReserve ==
    /\ cv_cmd = "to_lvm"
    /\ cv_pc = "reserve"
    /\ StackCall("reserve", cv_lvm.pe_newpos)
    /\ cv_pc' = "deactivate"
    /\ cv_trace' = cv_trace \o <<Step("block_stack.deactivate", "deactivate"),
                                 Step("stack_reserve_end_area", "shrink")>>
    /\ UNCHANGED <<cv_cmd, cv_wlog, cv_ndebug, cv_fd, cv_synth, cv_res, cv_bytes, cv_prev,
                   cv_orig, cv_luks, cv_lvm, cv_err>>
    /\ UNCHANGED <<st_layers, st_fs, st_devsize, st_err, st_active>>
    /\ UNCHANGED <<rotVars, unitVars, rzVars>>

\* cmd_to_lvm, lines 431-432: stack_reserve_end_area(pe_newpos)
ToLvmCallReserve ==
    /\ cv_cmd = "to_lvm"
    /\ cv_pc = "reserve"
    /\ StackCall("reserve", cv_lvm.pe_newpos)
    /\ cv_pc' = "deactivate"
    /\ cv_trace' = Append(cv_trace, Step("stack_reserve_end_area", "shrink"))
    /\ UNCHANGED <<cv_cmd, cv_wlog, cv_ndebug, cv_fd, cv_synth, cv_res, cv_bytes, cv_prev,
                   cv_orig, cv_luks, cv_lvm, cv_err>>
    /\ UNCHANGED <<st_layers, st_fs, st_devsize, st_err, st_active>>
    /\ UNCHANGED <<rotVars, unitVars, rzVars>>

\* cmd_to_lvm, lines 434-435, once stack_reserve_end_area has returned:
\* block_stack.deactivate()
ToLvmDeactivate(tool) ==
    /\ cv_cmd = "to_lvm"
    /\ cv_pc = "deactivate"
    /\ st_status = "done"
    /\ IF st_layers # << >> /\ tool = "fail"
       THEN /\ ConvAbort("ExternalCommandFailed")
            /\ UNCHANGED <<st_active, cv_trace>>
       ELSE /\ st_layers # << >> \/ tool = "ok"
            /\ cv_pc' = "copy_pe"
            /\ st_active' = FALSE
            /\ cv_trace' = Append(cv_trace, Step("block_stack.deactivate", "deactivate"))
            /\ UNCHANGED cv_err
    /\ st_status' = "idle"
    /\ UNCHANGED <<cv_cmd, cv_wlog, cv_ndebug, cv_fd, cv_synth, cv_res, cv_bytes, cv_prev,
                   cv_orig, cv_luks, cv_lvm>>
    /\ UNCHANGED <<st_layers, st_fs, st_devsize, st_op, st_pos, st_idx, st_cur,
                   st_log, st_snap, st_err>>
    /\ UNCHANGED <<rotVars, unitVars, rzVars>>

\* cmd_to_lvm, lines 437-456: open_excl, the first extent copied to
\* pe_newpos, close
ToLvmCopyPe(tool) ==
    /\ cv_cmd = "to_lvm"
    /\ cv_pc = "copy_pe"
    /\ LET pe_sectors == bytes_to_sector(cv_lvm.pe_size)
           newpos == bytes_to_sector(cv_lvm.pe_newpos)
           fits == newpos + pe_sectors <= DevLen(cv_bytes)
           pe_data == PRead(cv_bytes, 0, pe_sectors)
       IN  IF tool = "fail"
           THEN /\ ConvAbort("OpenFailed")
                /\ UNCHANGED <<cv_bytes, cv_trace>>
           ELSE /\ cv_trace' = Append(cv_trace, Step("copy first extent", "copy"))
                /\ cv_bytes' = PWrite(cv_bytes, pe_data, pe_sectors, newpos)
                /\ IF ~ fits /\ ~ cv_ndebug
                   THEN ConvAbort("AssertionFailed")
                   ELSE /\ cv_pc' = "synth"
                        /\ UNCHANGED cv_err
    /\ LogWrite(cv_err' # "OpenFailed", "copy first extent", "open")
    /\ UNCHANGED <<cv_cmd, cv_ndebug, cv_fd, cv_synth, cv_res, cv_prev, cv_orig,
                   cv_luks, cv_lvm>>
    /\ UNCHANGED <<rotVars, unitVars, stVars, rzVars>>

LvmFailPoints == {"none", "dmsetup", "lvm"}

\* pvcreate --zero y: the first four sectors wiped, the label in sector 1
PvCreate(bytes) ==
    [k \in DOMAIN bytes |-> IF k = 1 THEN LABELONE ELSE IF k < 4 THEN 0 ELSE bytes[k]]

\* vgcfgrestore: the metadata area up to pe_start written
VgCfgRestore(bytes, layout) ==
    [k \in DOMAIN bytes |-> IF k < layout.pe_start /\ k # 1 /\ k >= 4
                            THEN MetaSector(k) ELSE bytes[k]]

\* cmd_to_lvm, lines 458-603: the rozeros and synthetic mappings, the
\* restore file, pvcreate and vgcfgrestore on the synthetic device, whose
\* first extent is a linear mapping of the device's own first extent
ToLvmSynth(failure) ==
    /\ cv_cmd = "to_lvm"
    /\ cv_pc = "synth"
    /\ LET pe_sectors == bytes_to_sector(cv_lvm.pe_size)
           layout == LvmLayout(pe_sectors, cv_lvm.pe_count)
           valid == LayoutValid(layout, DevLen(cv_bytes))
       IN  IF failure = "dmsetup"
           THEN /\ ConvAbort("ExternalCommandFailed")
                /\ UNCHANGED <<cv_bytes, cv_res, cv_lvm, cv_trace>>
           ELSE /\ cv_res' = {"rozeros", "synthetic", "cfgfile"}
                /\ cv_lvm' = [cv_lvm EXCEPT !.layout = layout]
                /\ cv_trace' = Append(cv_trace, Step("pvcreate on synthetic", "prepare"))
                /\ IF failure = "lvm"
                   THEN /\ ConvAbort("ExternalCommandFailed")
                        /\ UNCHANGED cv_bytes
                   ELSE IF ~ valid
                   THEN /\ ConvAbort("ExternalCommandFailed")
                        /\ cv_bytes' = PvCreate(cv_bytes)
                   ELSE /\ cv_pc' = "readback"
                        /\ cv_bytes' = VgCfgRestore(PvCreate(cv_bytes), layout)
                        /\ UNCHANGED cv_err
    /\ LogWrite(cv_bytes' # cv_bytes, "pvcreate on synthetic", "closed")
    /\ UNCHANGED <<cv_cmd, cv_ndebug, cv_fd, cv_synth, cv_prev, cv_orig, cv_luks>>
    /\ UNCHANGED <<rotVars, unitVars, stVars, rzVars>>

\* cmd_to_lvm, lines 607-627: the first extent read back through the
\* synthetic device, then both mappings removed
ToLvmReadBack(tool) ==
    /\ cv_cmd = "to_lvm"
    /\ cv_pc = "readback"
    /\ LET pe_sectors == bytes_to_sector(cv_lvm.pe_size)
       IN  cv_lvm' = [cv_lvm EXCEPT !.metadata = PRead(cv_bytes, 0, pe_sectors)]
    /\ IF tool = "fail"
       THEN /\ ConvAbort("ExternalCommandFailed")
            /\ UNCHANGED cv_res
       ELSE /\ cv_pc' = "install"
            /\ cv_res' = cv_res \ {"rozeros", "synthetic"}
            /\ UNCHANGED cv_err
    /\ UNCHANGED <<cv_cmd, cv_wlog, cv_trace, cv_ndebug, cv_fd, cv_synth, cv_bytes, cv_prev,
                   cv_orig, cv_luks>>
    /\ UNCHANGED <<rotVars, unitVars, stVars, rzVars>>

\* cmd_to_lvm, lines 634-649: open_excl, the metadata written at offset 0,
\* close
ToLvmInstall(tool) ==
    /\ cv_cmd = "to_lvm"
    /\ cv_pc = "install"
    /\ IF tool = "fail"
       THEN /\ ConvAbort("OpenFailed")
            /\ UNCHANGED <<cv_bytes, cv_trace>>
       ELSE /\ cv_pc' = "activate"
            /\ cv_bytes' = PWrite(cv_bytes, cv_lvm.metadata,
                                  bytes_to_sector(cv_lvm.pe_size), 0)
            /\ cv_trace' = Append(cv_trace, Step("install metadata", "copy"))
            /\ UNCHANGED cv_err
    /\ LogWrite(cv_pc' = "activate", "install metadata", "open")
    /\ UNCHANGED <<cv_cmd, cv_ndebug, cv_fd, cv_synth, cv_res, cv_prev, cv_orig,
                   cv_luks, cv_lvm>>
    /\ UNCHANGED <<rotVars, unitVars, stVars, rzVars>>

\* cmd_to_lvm, lines 651-675: vgchange -ay and the removal of the restore
\* file
ToLvmActivate(tool) ==
    /\ cv_cmd = "to_lvm"
    /\ cv_pc = "activate"
    /\ IF tool = "fail"
       THEN /\ ConvAbort("ActivationFailed")
            /\ UNCHANGED <<cv_res, cv_lvm, cv_trace>>
       ELSE /\ cv_pc' = "done"
            /\ cv_res' = cv_res \ {"cfgfile"}
            /\ cv_lvm' = [cv_lvm EXCEPT !.vg_active = TRUE]
            /\ cv_trace' = Append(cv_trace, Step("vgchange -ay", "reactivate"))
            /\ UNCHANGED cv_err
    /\ UNCHANGED <<cv_cmd, cv_wlog, cv_ndebug, cv_fd, cv_synth, cv_bytes, cv_prev, cv_orig,
                   cv_luks>>
    /\ UNCHANGED <<rotVars, unitVars, stVars, rzVars>>

ToLvmNext ==
    \/ \E tool \in ToolOutcomes : ToLvmStart(tool)
    \/ \E tool \in ToolOutcomes : ToLvmFsck(tool)
    \/ ToLvmCallReserve
    \/ StackReserveEntry
    \/ \E tool \in ToolOutcomes : StackReserveStep(tool)
    \/ \E tool \in ToolOutcomes : ToLvmDeactivate(tool)
    \/ \E tool \in ToolOutcomes : ToLvmCopyPe(tool)
    \/ \E failure \in LvmFailPoints : ToLvmSynth(failure)
    \/ \E tool \in ToolOutcomes : ToLvmReadBack(tool)
    \/ \E tool \in ToolOutcomes : ToLvmInstall(tool)
    \/ \E tool \in ToolOutcomes : ToLvmActivate(tool)

SpecToLvm == ToLvmInit /\ [][ToLvmNext]_vars

-----------------------------------------------------------------------------
(* lv_to_bcache, up to the copy of the superblock.  The statements after   *)
(* copy_to_physical (the rotation of the LV and its reactivation, lines    *)
(* 88-153) are reached only when the copy returns.                         *)

LvDevSizes == {8192, 12288}

\* what std::stoull makes of the output of popen(cmd[0]), which runs "lvm"
\* without arguments: -1 stands for an output that does not begin with a
\* number, for which stoull throws std::invalid_argument
LvsOutputs == {0 - 1, 4096, 8192}

LvInit ==
    /\ RotIdle
    /\ UnitIdle
    /\ ResizeIdle
    /\ StackInitOn(LvDevSizes, {<< >>})
    /\ cv_cmd = "lv_to_bcache"
    /\ cv_pc = "query"
    /\ cv_trace = << >>
    /\ cv_wlog = << >>
    /\ cv_ndebug \in BOOLEAN
    /\ cv_fd = "closed"
    /\ cv_synth = NoSynth
    /\ cv_res = {}
    /\ cv_bytes = [i \in 0..(st_devsize - 1) |-> Filler(i)]
    /\ cv_prev = << >>
    /\ cv_orig = cv_bytes
    /\ cv_luks = NoLuks
    /\ cv_lvm = NoLvm
    /\ cv_err = ""

\* lv_to_bcache, lines 47-71: the extent size asked of LVM, the assertion
\* on the device size, data_size
LvQuery(out) ==
    /\ cv_cmd = "lv_to_bcache"
    /\ cv_pc = "query"
    /\ IF out < 0
       THEN /\ ConvAbort("InvalidArgument")
            /\ UNCHANGED cv_lvm
       ELSE IF ~ cv_ndebug /\ st_devsize % out # 0
       THEN /\ ConvAbort("AssertionFailed")
            /\ UNCHANGED cv_lvm
       ELSE /\ cv_pc' = "reserve"
            /\ cv_lvm' = [cv_lvm EXCEPT !.pe_size = out,
                                        !.data_size = Wrap(st_devsize - out)]
            /\ UNCHANGED cv_err
    /\ UNCHANGED <<cv_cmd, cv_wlog, cv_trace, cv_ndebug, cv_fd, cv_synth, cv_res, cv_bytes,
                   cv_prev, cv_orig, cv_luks>>
    /\ UNCHANGED <<rotVars, unitVars, stVars, rzVars>>

\* lv_to_bcache, lines 73-75: get_block_stack, read_superblocks,
\* stack_reserve_end_area(data_size)
LvCallReserve ==
    /\ cv_cmd = "lv_to_bcache"
    /\ cv_pc = "reserve"
    /\ StackCall("reserve", cv_lvm.data_size)
    /\ cv_pc' = "deactivate"
    /\ cv_trace' = Append(cv_trace, Step("stack_reserve_end_area", "shrink"))
    /\ UNCHANGED <<cv_cmd, cv_wlog, cv_ndebug, cv_fd, cv_synth, cv_res, cv_bytes, cv_prev,
                   cv_orig, cv_luks, cv_lvm, cv_err>>
    /\ UNCHANGED <<st_layers, st_fs, st_devsize, st_err, st_active>>
    /\ UNCHANGED <<rotVars, unitVars, rzVars>>

\* lv_to_bcache, line 76, once stack_reserve_end_area has returned:
\* block_stack.deactivate()
LvDeactivate(tool) ==
    /\ cv_cmd = "lv_to_bcache"
    /\ cv_pc = "deactivate"
    /\ st_status = "done"
    /\ IF st_layers # << >> /\ tool = "fail"
       THEN /\ ConvAbort("ExternalCommandFailed")
            /\ UNCHANGED <<st_active, cv_trace>>
       ELSE /\ st_layers # << >> \/ tool = "ok"
            /\ cv_pc' = "make"
            /\ st_active' = FALSE
            /\ cv_trace' = Append(cv_trace, Step("block_stack.deactivate", "deactivate"))
            /\ UNCHANGED cv_err
    /\ st_status' = "idle"
    /\ UNCHANGED <<cv_cmd, cv_wlog, cv_ndebug, cv_fd, cv_synth, cv_res, cv_bytes, cv_prev,
                   cv_orig, cv_luks, cv_lvm>>
    /\ UNCHANGED <<st_layers, st_fs, st_devsize, st_op, st_pos, st_idx, st_cur,
                   st_log, st_snap, st_err>>
    /\ UNCHANGED <<rotVars, unitVars, rzVars>>

\* lv_to_bcache, lines 78-79: open_excl_ctx, make_bcache_sb(pe_size, data_size)
LvOpenMake(open, tool) ==
    /\ cv_cmd = "lv_to_bcache"
    /\ cv_pc = "make"
    /\ IF open = "fail"
       THEN /\ tool = "ok"
            /\ ConvAbort("OpenFailed")
            /\ UNCHANGED <<cv_fd, cv_synth, cv_res, cv_trace>>
       ELSE LET r == make_bcache_sb(cv_lvm.pe_size, cv_lvm.data_size, tool)
            IN  /\ cv_fd' = IF r.ok THEN "open" ELSE ReleasedFd(r.err)
                /\ cv_synth' = r.synth
                /\ cv_res' = r.res
                /\ cv_trace' = Append(cv_trace, Step("make_bcache_sb", "prepare"))
                /\ IF r.ok THEN cv_pc' = "copy" /\ UNCHANGED cv_err
                   ELSE ConvAbort(r.err)
    /\ UNCHANGED <<cv_cmd, cv_wlog, cv_ndebug, cv_bytes, cv_prev, cv_orig, cv_luks, cv_lvm>>
    /\ UNCHANGED <<rotVars, unitVars, stVars, rzVars>>

\* lv_to_bcache, line 84: synth_bdev->copy_to_physical(fd, -pe_size)
LvCopy(ub) ==
    /\ cv_cmd = "lv_to_bcache"
    /\ cv_pc = "copy"
    /\ LET r == copy_to_physical(cv_synth, cv_bytes, Wrap(0 - cv_lvm.pe_size), 0,
                                 FALSE, cv_ndebug, ub)
       IN  /\ cv_bytes' = r.bytes
           /\ cv_trace' = Append(cv_trace, Step("copy_to_physical", "copy"))
           /\ IF r.ok
              THEN /\ cv_pc' = "rotate"
                   /\ UNCHANGED <<cv_err, cv_fd>>
              ELSE /\ ConvAbort(r.err)
                   /\ cv_fd' = ReleasedFd(r.err)
    /\ LogWrite(cv_pc' = "rotate" \/ cv_bytes' # cv_bytes, "copy_to_physical", cv_fd)
    /\ UNCHANGED <<cv_cmd, cv_ndebug, cv_synth, cv_res, cv_prev, cv_orig,
                   cv_luks, cv_lvm>>
    /\ UNCHANGED <<rotVars, unitVars, stVars, rzVars>>

\* lv_to_bcache, lines 88-153, as far as the segment table of the LV goes:
\* lvchange -an, vgcfgbackup into a scratch directory (a read), lvchange
\* --refresh and lvchange -ay.  No rotate_lv, no rotate_aug and no
\* vgcfgrestore is called, so LVM keeps the table it had.
LvRotateTail(table) == table

\* the error a pipeline ended with: that of the walk of the stack when it
\* stopped there, that of the pipeline's own statements otherwise
Failure == IF st_status = "aborted" THEN st_err ELSE cv_err

\* the errors reported through CLIProgressHandler::bail, which calls exit(2)
Bails == {"CantShrink", "UnsupportedSuperblock"}

\* the exit status of the process.  main has no handler around the
\* commands: an exception that leaves a pipeline reaches std::terminate
\* (SIGABRT, status 134), as does a failed assertion; a crash is SIGSEGV.
ExitCode ==
    IF Failure = "" THEN 0
    ELSE IF Failure \in Bails THEN 2
    ELSE IF Failure = "Crash" THEN 139
    ELSE 134

\* the steps of the three pipelines; the walk of stack_reserve_end_area is
\* among those of ToLvmNext
ConvNext ==
    \/ LuksNext
    \/ ToLvmNext
    \/ \E out \in LvsOutputs : LvQuery(out)
    \/ LvCallReserve
    \/ \E tool \in ToolOutcomes : LvDeactivate(tool)
    \/ \E open \in ToolOutcomes, tool \in SynthOutcomes : LvOpenMake(open, tool)
    \/ \E ub \in UbOutcomes : LvCopy(ub)

SpecConvert == (LuksInit \/ ToLvmInit \/ LvInit) /\ [][ConvNext]_vars

-----------------------------------------------------------------------------
(* Swap: the (version, last_page) pair at offset 1024 of the signature     *)
(* page.  A uint32_t is kept as its four bytes, most significant first.    *)

\* the four bytes of a number below 2^31; -1 is what 0 - 1 wraps to
ToWord(x) ==
    IF x < 0 THEN <<255, 255, 255, 255>>
    ELSE << (x \div 16777216) % 256, (x \div 65536) % 256, (x \div 256) % 256,
            x % 256 >>

\* the headers explored: last_page as mkswap wrote it, and the targets of
\* _resize
SwapLastPages == {0, 1, 3, 127, 128, 255, 256, 300}
SwapVersions == {1, 2}
SwapTargets == {8192, 16384, 528384}

\* the four bytes of a word as they lie on the disk in the given byte order
OnDisk(w, big) == IF big THEN w ELSE <<w[4], w[3], w[2], w[1]>>

\* static_cast<uint32_t>(c) << 8k of the four chars p0..p3 (k = 0..3), or-ed
\* together.  A char of 128 and above is negative where char is signed, and
\* its conversion sets every higher bit of the word.
OrShifted(p0, p1, p2, p3, signed) ==
    LET ext(c) == signed /\ c >= 128
    IN  << IF ext(p0) \/ ext(p1) \/ ext(p2) THEN 255 ELSE p3,
           IF ext(p0) \/ ext(p1) THEN 255 ELSE p2,
           IF ext(p0) THEN 255 ELSE p1,
           p0 >>

\* lines 468-476: 'try big endian first'
SwapDecodeFirst(b, signed) == OrShifted(b[4], b[3], b[2], b[1], signed)

\* lines 483-491: 'try little endian', buf[3] | buf[2] << 8 | buf[1] << 16
\* | buf[0] << 24
SwapDecodeSecond(b, signed) == OrShifted(b[4], b[3], b[2], b[1], signed)

\* Swap::__read_sb on the 8 bytes at 1024 (the magic is taken as read)
read_sb(hdr, signed) ==
    LET vb == SubSeq(hdr, 1, 4)
        lb == SubSeq(hdr, 5, 8)
        v1 == SwapDecodeFirst(vb, signed)
        v2 == SwapDecodeSecond(vb, signed)
        big_endian == v1 = ToWord(1)
        version == IF big_endian THEN v1 ELSE v2
        last_page == IF big_endian THEN SwapDecodeFirst(lb, signed)
                     ELSE SwapDecodeSecond(lb, signed)
    IN  IF version # ToWord(1) \/ last_page = ToWord(0)
        THEN [ok |-> FALSE, sb |-> NoSwapSb]
        ELSE [ok |-> TRUE,
              sb |-> [big_endian |-> big_endian, version |-> version,
                      last_page |-> last_page]]

\* the buffer Swap::_resize writes at 1024, lines 514-535
SwapResizeBuf(sb, target_size) ==
    LET last_page == ToWord(target_size \div 4096 - 1)
    IN  OnDisk(sb.version, sb.big_endian) \o OnDisk(last_page, sb.big_endian)

SwapInit ==
    /\ NotSwIdle
    /\ sw_pc = "start"
    /\ sw_orig \in [big : BOOLEAN, version : SwapVersions, last_page : SwapLastPages]
    /\ sw_hdr = OnDisk(ToWord(sw_orig.version), sw_orig.big)
                    \o OnDisk(ToWord(sw_orig.last_page), sw_orig.big)
    /\ sw_signed \in BOOLEAN
    /\ sw_sb = NoSwapSb
    /\ sw_target = 0

\* Swap::read_superblock, lines 431-443
SwapReadSuperblock ==
    /\ sw_pc = "start"
    /\ LET r == read_sb(sw_hdr, sw_signed)
       IN  /\ sw_pc' = IF r.ok THEN "read" ELSE "rejected"
           /\ sw_sb' = r.sb
    /\ UNCHANGED <<sw_orig, sw_hdr, sw_signed, sw_target>>
    /\ UNCHANGED notSwVars

\* Swap::_resize(target_size), lines 510-544
SwapResizeHeader(target_size, tool) ==
    /\ sw_pc = "read"
    /\ sw_target' = target_size
    /\ IF tool = "ok"
       THEN /\ sw_pc' = "resized"
            /\ sw_hdr' = SwapResizeBuf(sw_sb, target_size)
       ELSE /\ sw_pc' = "failed"
            /\ UNCHANGED sw_hdr
    /\ UNCHANGED <<sw_orig, sw_signed, sw_sb>>
    /\ UNCHANGED notSwVars

\* Filesystem::_mount_and_resize, lines 100-101: read_superblock() once
\* _resize has returned
SwapReread ==
    /\ sw_pc = "resized"
    /\ LET r == read_sb(sw_hdr, sw_signed)
       IN  /\ sw_pc' = IF r.ok THEN "reread" ELSE "unreadable"
           /\ sw_sb' = r.sb
    /\ UNCHANGED <<sw_orig, sw_hdr, sw_signed, sw_target>>
    /\ UNCHANGED notSwVars

SwapNext ==
    \/ SwapReadSuperblock
    \/ \E target_size \in SwapTargets, tool \in ToolOutcomes :
           SwapResizeHeader(target_size, tool)
    \/ SwapReread

SpecSwap == SwapInit /\ [][SwapNext]_vars

-----------------------------------------------------------------------------
(* Claims about cmd_to_lvm *)

\* the sectors extent i of the device held before the conversion
OrigExtent(i) ==
    LET pe_sectors == bytes_to_sector(cv_lvm.pe_size)
    IN  PRead(cv_orig, i * pe_sectors, pe_sectors)

ToLvmSucceeded == cv_cmd = "to_lvm" /\ cv_pc = "done" /\ cv_lvm.pe_count >= 2

-----------------------------------------------------------------------------
(* Claims about rotate_aug *)

\* The tree left by the i-th rotate_aug call of the behaviour.
TreeAfter(i) == IF i = Len(rot_dirs) THEN rot_tree ELSE rot_hist[i + 1]

-----------------------------------------------------------------------------
(* Claims about BlockStack and cmd_resize *)

FsLayer == Len(st_layers) + 1

\* the aligned position stack_reserve_end_area computes for the filesystem
InnerPos == align(Wrap(st_pos - overhead(st_layers)), st_fs.block_size)

\* C4: stack_reserve_end_area invokes the per-layer steps innermost first
\* (the filesystem first, then the wrappers from wn-1 down to w0) and
\* stack_grow invokes them outermost first (w0 up to wn-1, the filesystem
\* last); a call that ran to its end has made its filesystem step.
C4_ReserveInnermostFirstGrowOutermostFirst ==
    /\ st_op = "reserve" =>
          /\ \A j, k \in 1..Len(st_log) : j < k => st_log[j].layer > st_log[k].layer
          /\ st_log # << >> => st_log[1].layer = FsLayer
          /\ st_status = "done" => st_log # << >>
    /\ st_op = "grow" =>
          /\ \A j \in 1..Len(st_log) : st_log[j].layer = j
          /\ st_status = "done" => st_log[Len(st_log)].layer = FsLayer

C4_Witness ==
    /\ st_op = "reserve"
    /\ st_status = "done"
    /\ Len(st_log) = 3
    /\ st_log[3].layer = 1

\* C5: when the filesystem would have to shrink below its size and cannot
\* shrink (XFS), stack_reserve_end_area ends with CantShrink before any
\* per-layer step is invoked or any size changed; and the filesystem step
\* of a filesystem that already fits the aligned position resizes nothing.
C5_CantShrinkBeforeAnyStep ==
    st_op = "reserve" =>
        /\ (st_fs.kind = "xfs" /\ st_snap[FsLayer] > InnerPos) =>
              /\ st_status \in {"entry", "aborted"}
              /\ st_status = "aborted" => st_err = "CantShrink"
              /\ st_log = << >>
              /\ LayerSizes(st_layers, st_fs) = st_snap
        /\ \A j \in 1..Len(st_log) :
              (st_log[j].layer = FsLayer /\ st_snap[FsLayer] <= InnerPos) =>
                  /\ ~ st_log[j].resized
                  /\ st_fs.fssize = st_snap[FsLayer]

C5_Witness ==
    /\ st_op = "reserve"
    /\ st_status = "aborted"
    /\ st_err = "CantShrink"
    /\ st_fs.kind = "xfs"
    /\ st_layers # << >>

\* C6, as stated: when the step of a layer fails during
\* stack_reserve_end_area, every layer has the size it had before the call.
C6_FailedShrinkLeavesEverySize ==
    (st_op = "reserve" /\ st_status = "aborted") =>
        LayerSizes(st_layers, st_fs) = st_snap

\* the size the completed reserve step of layer i gives it
ReservedSize(i) ==
    LET p == iter_pos(st_layers, st_pos)[i].pos
    IN  IF i = FsLayer
        THEN IF st_snap[i] <= align(p, st_fs.block_size) THEN st_snap[i]
             ELSE align(p, st_fs.block_size)
        ELSE IF st_layers[i].kind = "luks" THEN Wrap(p - st_layers[i].offset)
        ELSE st_snap[i]

\* C6, amended: when the step of a layer fails during
\* stack_reserve_end_area the operation stops there and nothing is undone:
\* the layers outside the failing one keep the size they had before the
\* call, and the layers inside it keep the size their own step gave them.
C6_FailedShrinkKeepsOuterSizes ==
    (st_op = "reserve" /\ st_status = "aborted") =>
        IF st_log = << >> THEN LayerSizes(st_layers, st_fs) = st_snap
        ELSE LET f == st_log[Len(st_log)].layer
             IN  \A i \in 1..FsLayer :
                     /\ i < f => LayerSizes(st_layers, st_fs)[i] = st_snap[i]
                     /\ i > f => LayerSizes(st_layers, st_fs)[i] = ReservedSize(i)

C6_Witness ==
    /\ st_op = "reserve"
    /\ st_status = "aborted"
    /\ Len(st_log) = 2
    /\ st_log[2].kind = "luks"
    /\ st_fs.fssize < st_snap[FsLayer]

\* C7, as stated: in every state of cmd_resize the filesystem and the
\* overhead of the wrappers lie within the device, and the position handed
\* to stack_grow or stack_reserve_end_area does not exceed device.size().
C7_StackStaysWithinDevice ==
    rz_pc # "idle" =>
        /\ st_fs.fssize + overhead(st_layers) <= st_devsize
        /\ st_op # "none" => st_pos <= st_devsize

-----------------------------------------------------------------------------
(* Claims about luks_to_bcache, shift_sb and copy_to_physical *)

\* the end of the LUKS superblock in content b: 592 or the largest end of the
\* key material of a key slot
SbEndOf(b) ==
    LET ends == {592} \cup { be32toh(b, 208 + 48 * k + 40) * 512
                               + be32toh(b, 208 + 48 * k + 44) * be32toh(b, 108)
                             : k \in 0..7 }
    IN  CHOOSE m \in ends : \A e \in ends : e <= m

\* C8: when LUKS::shift_sb(fd, shift_by) has returned, the device holds
\* shift_by zero bytes at [0, shift_by) and at [shift_by, shift_by + sb_end)
\* the bytes that were at [0, sb_end), except that the 4-byte big-endian
\* field at offset 104 of the copy is (payload_start - shift_by) / 512; every
\* byte from shift_by + sb_end on, so every byte at or beyond the old
\* payload_start, is as before.
C8_ShiftSbWritesShiftedHeader ==
    (cv_cmd = "luks_to_bcache" /\ cv_pc = "copy") =>
        LET sb_end == SbEndOf(cv_prev)
            payload_start == be32toh(cv_prev, 104) * 512
        IN  /\ \A i \in 0..(BCACHE_SHIFT - 1) : cv_bytes[i] = 0
            /\ \A i \in 0..(sb_end - 1) :
                   (i < 104 \/ i >= 108) => cv_bytes[BCACHE_SHIFT + i] = cv_prev[i]
            /\ be32toh(cv_bytes, BCACHE_SHIFT + 104) * 512 = payload_start - BCACHE_SHIFT
            /\ BCACHE_SHIFT + sb_end <= payload_start
            /\ \A i \in DOMAIN cv_bytes :
                   i >= BCACHE_SHIFT + sb_end => cv_bytes[i] = cv_prev[i]

C8_Witness ==
    /\ cv_cmd = "luks_to_bcache"
    /\ cv_pc = "copy"
    /\ SbEndOf(cv_prev) > 592
    /\ cv_bytes # cv_prev

\* the steps of the conversion that have run as far as the shifted header
LuksShifted ==
    /\ cv_cmd = "luks_to_bcache"
    /\ \E j \in 1..Len(cv_trace) : cv_trace[j].step = "shift_sb"
    /\ cv_bytes # cv_orig

\* the size of the cleartext device before the conversion: the device less
\* the payload offset of its header
CleartextBefore == DevLen(cv_orig) - be32toh(cv_orig, 104) * 512

\* and after: the LUKS header now lies at the bcache data offset, on a bcache
\* device that is BCACHE_SHIFT smaller than the backing device
CleartextAfter ==
    (DevLen(cv_bytes) - BCACHE_SHIFT) - be32toh(cv_bytes, BCACHE_SHIFT + 104) * 512

-----------------------------------------------------------------------------
(* Claims about the order of the steps of the three pipelines *)

Kinds(trace) == [i \in DOMAIN trace |-> trace[i].kind]

\* the kinds of mutation step: (a) drain or deactivate, (b) shrink,
\* (c) prepare synthetic bytes, (d) copy bytes to the real device,
\* (e) reactivate
KindRank(kind) ==
    CASE kind = "deactivate" -> 1
      [] kind = "shrink" -> 2
      [] kind = "prepare" -> 3
      [] kind = "copy" -> 4
      [] kind = "reactivate" -> 5

IsPrefix(s, t) == Len(s) <= Len(t) /\ \A i \in 1..Len(s) : s[i] = t[i]

\* C10, as stated: in each pipeline no step of a later kind runs before a
\* step of an earlier kind, the kinds being ordered (a) deactivate,
\* (b) shrink, (c) prepare, (d) copy, (e) reactivate.
C10_StepsInKindOrder ==
    \A j, k \in DOMAIN cv_trace :
        j < k => KindRank(cv_trace[j].kind) <= KindRank(cv_trace[k].kind)

\* C10, amended: the steps of a pipeline run in this order.  cmd_to_lvm:
\* shrink, deactivate, copy (the first extent to the end of the device),
\* prepare (the metadata on the synthetic device), copy (the metadata),
\* reactivate.  lv_to_bcache: shrink, deactivate, prepare, copy.
\* luks_to_bcache: deactivate, prepare, copy (the shifted header), copy (the
\* bcache superblock); it neither shrinks nor reactivates.
C10_StepsInCodeOrder ==
    /\ cv_cmd = "to_lvm" =>
           IsPrefix(Kinds(cv_trace), <<"shrink", "deactivate", "copy", "prepare",
                                       "copy", "reactivate">>)
    /\ cv_cmd = "lv_to_bcache" =>
           IsPrefix(Kinds(cv_trace), <<"shrink", "deactivate", "prepare", "copy">>)
    /\ cv_cmd = "luks_to_bcache" =>
           IsPrefix(Kinds(cv_trace), <<"deactivate", "prepare", "copy", "copy">>)

\* a cmd_to_lvm that ran all of its steps
C10_Witness ==
    /\ cv_cmd = "to_lvm"
    /\ cv_pc = "done"
    /\ Len(cv_trace) = 6

-----------------------------------------------------------------------------
(* Claims about the exclusive descriptor *)

\* C11: every write to the target device made by a conversion happens while
\* the process holds an exclusive descriptor on the device that open_excl
\* returned with success; a write made after the open was refused, or after
\* the descriptor was closed, is a write without it.
C11_WritesUnderExclusiveOpen ==
    \A i \in DOMAIN cv_wlog : cv_wlog[i].fd = "open"

\* C12: when a pipeline that opened the device exclusively has returned or
\* has let an exception propagate, the exclusive descriptor is closed.
C12_ExitsCloseDescriptor ==
    (cv_pc \in {"done", "aborted"} /\ cv_err \notin ProcessDies) => cv_fd = "closed"

-----------------------------------------------------------------------------
(* Claims about the resources of a synthetic device *)

\* C13: when a conversion has ended, by return or by failure, nothing that
\* was acquired for a synthetic device is left: no scratch file, no loopback
\* attachment, no rozeros and no synthetic dm node, no restore file.
C13_ResourcesReleasedOnExit ==
    cv_pc \in {"done", "aborted"} => cv_res = {}


-----------------------------------------------------------------------------
(* Claims about what cmd_to_lvm writes, and when it refuses *)

\* C14: in cmd_to_lvm, between the copy of the first extent to pe_newpos and
\* the final write of the head extent at offset 0, no byte of the device
\* changes: the steps in between (the synthetic device, pvcreate,
\* vgcfgrestore, the read-back) leave the device as it is.
C14_ToolsLeaveDeviceAlone ==
    [][(cv_cmd = "to_lvm" /\ cv_pc \in {"synth", "readback"})
           => cv_bytes' = cv_bytes]_vars

\* C15: cmd_to_lvm on a device that is an LVM physical volume already ends
\* with an error and leaves the metadata and the contents of the device
\* unmodified.
C15_PhysicalVolumeRefused ==
    (cv_cmd = "to_lvm" /\ cv_orig[1] = LABELONE /\ cv_pc # "start")
        => (cv_pc = "aborted" /\ cv_bytes = cv_orig)

\* the conversion has ended: by return, by an exception, or by bail()
ToLvmEnded ==
    /\ cv_cmd = "to_lvm"
    /\ cv_pc \in {"done", "aborted"} \/ st_status = "aborted"

\* an XFS filesystem that reaches into the last extent of a device that
\* cmd_to_lvm accepts otherwise
XfsMustShrink ==
    /\ cv_cmd = "to_lvm"
    /\ st_fs.kind = "xfs"
    /\ cv_orig[1] # LABELONE
    /\ cv_lvm.pe_size >= 4096
    /\ LET pe_newpos == Wrap(Wrap(st_devsize \div cv_lvm.pe_size - 1) * cv_lvm.pe_size)
       IN  st_fs.fssize > align(Wrap(pe_newpos - overhead(st_layers)),
                                st_fs.block_size)

\* C16: to-lvm on a device whose filesystem is XFS and reaches into the last
\* extent ends by bail() with CantShrink (exit code 2), never by another
\* failure, and the device is byte for byte what it was.
C16_XfsBailsWithCantShrink ==
    (XfsMustShrink /\ ToLvmEnded)
        => (st_err = "CantShrink" /\ cv_err = "" /\ cv_bytes = cv_orig)


-----------------------------------------------------------------------------
(* Claims about the geometry of cmd_to_lvm *)

\* the size of the filesystem when stack_reserve_end_area was entered
InitialFssize == st_snap[Len(st_snap)]

MinOf(a, b) == IF a <= b THEN a ELSE b

C18_BadGeometryRejected ==
    (/\ cv_cmd = "to_lvm"
     /\ cv_orig[1] # LABELONE
     /\ cv_lvm.pe_size < 4096 \/ st_devsize % cv_lvm.pe_size # 0)
        => (cv_pc \in {"start", "aborted"} /\ cv_trace = << >>
            /\ cv_bytes = cv_orig)


-----------------------------------------------------------------------------
(* Claims about lv_to_bcache *)

\* the synthetic device lv_to_bcache holds, had the bytes of the tool
\* reached its data
LvSynthFilled == [cv_synth EXCEPT !.data = ToolImage(cv_synth.hdr)]

\* C19: copy_to_physical called as lv_to_bcache calls it (other_device
\* false, shift_by = -pe_size) on a synthetic device that holds its head
\* bytes succeeds and writes the head at device offset size - pe_size, the
\* last extent of the LV, leaving the rest of the device as it was.
C19_NegativeShiftWritesLastExtent ==
    (cv_cmd = "lv_to_bcache" /\ cv_pc = "copy") =>
        LET r == copy_to_physical(LvSynthFilled, cv_bytes,
                                  Wrap(0 - cv_lvm.pe_size), 0, FALSE,
                                  cv_ndebug, "junk")
        IN  /\ r.ok
            /\ r.bytes = PWrite(cv_bytes, LvSynthFilled.data, cv_synth.hdr,
                                st_devsize - cv_lvm.pe_size)


\* the segment tables an LV of the given size can have
LvTables(size) == { t \in ValidTrees : TreeBytes(t) = size }

\* the physical extent (volume and extent number) logical extent i maps to
PhysExtent(t, i) ==
    LET l == CHOOSE l \in 1..t.segment_count :
                 /\ AugGet(t, l, "start_extent") <= i
                 /\ i < AugGet(t, l, "start_extent") + AugGet(t, l, "extent_count")
    IN  [pv |-> AugGet(t, l, "pv"),
         off |-> AugGet(t, l, "off") + (i - AugGet(t, l, "start_extent"))]

\* table `after` is table `before` rotated backward by one extent
RotatedBackward(before, after) ==
    LET n == ExtentTotal(before, before.segment_count)
    IN  /\ ExtentTotal(after, after.segment_count) = n
        /\ PhysExtent(after, 0) = PhysExtent(before, n - 1)
        /\ \A i \in 1..(n - 1) : PhysExtent(after, i) = PhysExtent(before, i - 1)

\* C20: the statements of lv_to_bcache that follow the copy of the
\* superblock leave the segment table of the LV rotated backward by one
\* extent: logical extent 0 on the physical extent that was the last of the
\* LV, logical extents 1..n-1 on those of the former extents 0..n-2.
C20_LvTableRotatedBackward ==
    (cv_cmd = "lv_to_bcache" /\ cv_pc = "copy") =>
        \A t \in LvTables(st_devsize) : RotatedBackward(t, LvRotateTail(t))


-----------------------------------------------------------------------------
(* Claims about the result of rotate_aug *)

\* the dict of segment<l>
Seg(t, l) ==
    [start_extent |-> AugGet(t, l, "start_extent"),
     extent_count |-> AugGet(t, l, "extent_count"),
     type |-> AugGet(t, l, "type"),
     stripe_count |-> AugGet(t, l, "stripe_count"),
     pv |-> AugGet(t, l, "pv"),
     off |-> AugGet(t, l, "off")]

\* the children of $lv are segment1..segment<segment_count>, in this order
WellLabelled(t) ==
    /\ Len(t.nodes) = t.segment_count
    /\ \A j \in 1..Len(t.nodes) : t.nodes[j].label = j

\* the segment rotate_aug(forward) appends: the extent that was the first
NewLast(b) ==
    [start_extent |-> ExtentTotal(b, b.segment_count) - 1, extent_count |-> 1,
     type |-> "striped", stripe_count |-> 1,
     pv |-> AugGet(b, 1, "pv"), off |-> AugGet(b, 1, "off")]

\* tree a is what the claim says rotate_aug(forward) makes of tree b
ForwardResult(b, a) ==
    LET n == b.segment_count
    IN  /\ WellLabelled(a)
        /\ a.extent_size = b.extent_size
        /\ IF AugGet(b, 1, "extent_count") > 1
           THEN /\ a.segment_count = n + 1
                /\ Seg(a, 1) = [Seg(b, 1) EXCEPT !.extent_count = @ - 1,
                                                 !.off = @ + 1]
                /\ \A j \in 2..n :
                       Seg(a, j) = [Seg(b, j) EXCEPT !.start_extent = @ - 1]
                /\ Seg(a, n + 1) = NewLast(b)
           ELSE /\ a.segment_count = n
                /\ \A j \in 1..(n - 1) :
                       Seg(a, j) = [Seg(b, j + 1) EXCEPT !.start_extent = @ - 1]
                /\ Seg(a, n) = NewLast(b)

\* the example of the claim: {0,3,pv0@0},{3,5,pv0@10}
ExampleTree ==
    MkTree(<< [extent_count |-> 3, pv |-> "pv0", off |-> 0],
              [extent_count |-> 5, pv |-> "pv0", off |-> 10] >>)

\* and what it becomes: {0,2,pv0@1},{2,5,pv0@10},{7,1,pv0@0}
ExampleRotated ==
    [segment_count |-> 3,
     extent_size |-> PeSectors,
     nodes |-> << [label |-> 1, start_extent |-> 0, extent_count |-> 2,
                   type |-> "striped", stripe_count |-> 1, pv |-> "pv0", off |-> 1],
                  [label |-> 2, start_extent |-> 2, extent_count |-> 5,
                   type |-> "striped", stripe_count |-> 1, pv |-> "pv0", off |-> 10],
                  [label |-> 3, start_extent |-> 7, extent_count |-> 1,
                   type |-> "striped", stripe_count |-> 1, pv |-> "pv0", off |-> 0] >>]

-----------------------------------------------------------------------------
(* Claims about the exit status *)

\* a conversion has ended: by return, by an exception, or by bail()
ConvEnded ==
    /\ cv_cmd \in {"to_lvm", "lv_to_bcache", "luks_to_bcache"}
    /\ cv_pc \in {"done", "aborted"} \/ st_status = "aborted"

\* C23: a pipeline that ended with an internal failure (a layer error, a
\* failed external command, a refused exclusive open, a failed
\* precondition) ends the process with exit code 2, and one that succeeded
\* with exit code 0.
C23_FailuresExitWithTwo ==
    ConvEnded => ExitCode = (IF Failure = "" THEN 0 ELSE 2)


-----------------------------------------------------------------------------
(* Claims about Swap *)

\* a header of version 1 with a last page, in either byte order
SwapHeaderValid == sw_orig.version = 1 /\ sw_orig.last_page # 0

\* C24: read_superblock accepts a header whose version is 1 in either byte
\* order, records that byte order and decodes last_page in it; _resize
\* then rewrites the pair in the same byte order, with the same version and
\* last_page = target_size / 4096 - 1.
C24_SwapKeepsByteOrder ==
    (sw_pc # "idle" /\ SwapHeaderValid) =>
        /\ sw_pc # "rejected"
        /\ sw_pc \in {"read", "resized", "failed"} =>
               /\ sw_sb.big_endian = sw_orig.big
               /\ sw_sb.version = ToWord(1)
               /\ sw_sb.last_page = ToWord(sw_orig.last_page)
        /\ sw_pc = "resized" =>
               sw_hdr = OnDisk(ToWord(1), sw_orig.big)
                            \o OnDisk(ToWord(sw_target \div 4096 - 1), sw_orig.big)

\* fssize() = block_size * block_count with block_count = last_page + 1,
\* for a target below 2^31 pages
SwapFssizeIs(sb, target_size) == sb.last_page = ToWord(target_size \div 4096 - 1)

\* C38: for a target_size that is a multiple of 4096 with target_size / 4096
\* - 1 >= 1, Swap::_resize(target_size) followed by Swap::read_superblock
\* yields fssize() = target_size, also when a byte of the stored pair is
\* 0x80 or more
C38_SwapResizeReadsBack ==
    sw_pc \in {"reread", "unreadable"} =>
        /\ sw_pc = "reread"
        /\ SwapFssizeIs(sw_sb, sw_target)

-----------------------------------------------------------------------------
(* Claims about the order of cmd_resize                                    *)

\* the dev_resize calls of the run that enlarged, and those that shrank
GrowCalls == {i \in 1..Len(rz_log) : ~ rz_log[i].shrink}
ShrinkCalls == {i \in 1..Len(rz_log) : rz_log[i].shrink}

\* the stack has been entered: stack_resize was called
StackEntered == rz_pc \in {"stack", "done"} \/ (rz_pc = "aborted" /\ st_op # "none")

C25_GrowWitness ==
    /\ rz_devkind = "lv" /\ GrowCalls # {} /\ st_log # << >>
    /\ rz_log[1].after > rz_log[1].before

-----------------------------------------------------------------------------
(* BlockDevice::size and reset_size.  The device's size is what blockdev   *)
(* --getsize64 prints; it changes when something resizes the device.       *)

SizeValues == {4096, 8192, 12288}
MaxCalls == 4         \* size() calls recorded between two reset_size calls

\* memoized_property::reset(obj, cache): cache.erase(name)
MemoReset(cache, name) == [k \in (DOMAIN cache) \ {name} |-> cache[k]]

SizeInit ==
    /\ NotSzIdle
    /\ sz_dev \in SizeValues
    /\ sz_memo = << >>
    /\ sz_calls = << >>

\* BlockDevice::size(), lines 150-174: popen of blockdev --getsize64, the
\* number printed is returned; memoized_uint64 is neither read nor written
BlockDeviceSize ==
    /\ Len(sz_calls) < MaxCalls
    /\ sz_dev % SECTOR = 0
    /\ sz_calls' = Append(sz_calls, [probed |-> TRUE, value |-> sz_dev, dev |-> sz_dev])
    /\ UNCHANGED <<sz_dev, sz_memo>>
    /\ UNCHANGED notSzVars

\* BlockDevice::reset_size(), lines 176-178
BlockDeviceResetSize ==
    /\ sz_memo' = MemoReset(sz_memo, "size")
    /\ sz_calls' = << >>
    /\ UNCHANGED sz_dev
    /\ UNCHANGED notSzVars

\* the device is resized by something else
DeviceSizeChanges(n) ==
    /\ n # sz_dev
    /\ sz_dev' = n
    /\ UNCHANGED <<sz_memo, sz_calls>>
    /\ UNCHANGED notSzVars

SizeNext ==
    \/ BlockDeviceSize
    \/ BlockDeviceResetSize
    \/ \E n \in SizeValues : DeviceSizeChanges(n)

SpecSize == SizeInit /\ [][SizeNext]_vars

-----------------------------------------------------------------------------
(* Claims about BlockDevice::size                                          *)

\* C26: of the size() calls made since the latest reset_size(), at most one
\* ran the external probe and all returned the same value, whatever the
\* device's size became meanwhile; the first of them probed and returned
\* the size the device had then
C26_SizeProbedOncePerReset ==
    /\ Cardinality({i \in 1..Len(sz_calls) : sz_calls[i].probed}) <= 1
    /\ \A i, j \in 1..Len(sz_calls) : sz_calls[i].value = sz_calls[j].value
    /\ sz_calls # << >> =>
           sz_calls[1].probed /\ sz_calls[1].value = sz_calls[1].dev

-----------------------------------------------------------------------------
(* The VG name of cmd_to_lvm.  A string is a sequence of characters.       *)

Lower == {"a", "b", "c", "d", "e", "f", "g", "h", "i", "j", "k", "l", "m",
          "n", "o", "p", "q", "r", "s", "t", "u", "v", "w", "x", "y", "z"}
Upper == {"A", "B", "C", "D", "E", "F", "G", "H", "I", "J", "K", "L", "M",
          "N", "O", "P", "Q", "R", "S", "T", "U", "V", "W", "X", "Y", "Z"}
Digits == {"0", "1", "2", "3", "4", "5", "6", "7", "8", "9"}

\* blocks_types.h, line 38
ASCII_ALNUM_WHITELIST == Lower \cup Upper \cup Digits \cup {"."}

HexDigit == <<"0", "1", "2", "3", "4", "5", "6", "7",
              "8", "9", "a", "b", "c", "d", "e", "f">>

\* the two lower case hexadecimal digits of a byte
HexByte(b) == <<HexDigit[(b \div 16) + 1], HexDigit[(b % 16) + 1]>>

RECURSIVE HexBytes(_, _, _)
HexBytes(u, from, to) ==
    IF from > to THEN << >> ELSE HexByte(u[from]) \o HexBytes(u, from + 1, to)

\* uuid_unparse_lower: 8-4-4-4-12 hexadecimal digits, 36 characters
uuid_unparse_lower(u) ==
    HexBytes(u, 1, 4) \o <<"-">> \o HexBytes(u, 5, 6) \o <<"-">>
        \o HexBytes(u, 7, 8) \o <<"-">> \o HexBytes(u, 9, 10) \o <<"-">>
        \o HexBytes(u, 11, 16)

\* uuid_generate: random bytes with the version 4 and variant bits set
UuidFill == {0, 10, 171, 255}
Uuids == {[i \in 1..16 |-> IF i = 7 THEN 64 + (b % 16)
                           ELSE IF i = 9 THEN 128 + (b % 64) ELSE b] : b \in UuidFill}

JoinArgs == {<< >>, <<"v", "g", "0">>}
VgNameArgs == {<< >>, <<"d", "a", "t", "a">>, <<"m", "y", "-", "v", "g">>,
               <<"v", "g", "_", "1">>}
BaseNames == {<<"s", "d", "a", "1">>, <<"d", "m", "-", "0">>,
              <<"l", "o", "o", "p", "0", "p", "1">>}

\* cmd_to_lvm, lines 336-382: the name for --join, --vg-name and neither
ChooseVgName(args, uuid) ==
    IF args.join # << >> THEN uuid_unparse_lower(uuid)
    ELSE IF args.vgname # << >> THEN args.vgname
    ELSE <<"v", "g", ".">> \o args.base

\* cmd_to_lvm, lines 384-387: what the two assertions require
VgNameAccepted(name) ==
    /\ name # << >>
    /\ \A i \in 1..Len(name) : name[i] \in ASCII_ALNUM_WHITELIST

VgNameInit ==
    /\ NotVnIdle
    /\ vn_pc = "start"
    /\ vn_args \in [join : JoinArgs, vgname : VgNameArgs, base : BaseNames]
    /\ vn_uuid \in Uuids
    /\ vn_ndebug \in BOOLEAN
    /\ vn_name = << >>

\* cmd_to_lvm, lines 336-382
VgNameChoose ==
    /\ vn_pc = "start"
    /\ vn_name' = ChooseVgName(vn_args, vn_uuid)
    /\ vn_pc' = "named"
    /\ UNCHANGED <<vn_args, vn_uuid, vn_ndebug>>
    /\ UNCHANGED notVnVars

\* cmd_to_lvm, lines 384-387: a failed assert aborts the process; the name
\* that passes is the one written into the metadata (line 530)
VgNameValidate ==
    /\ vn_pc = "named"
    /\ vn_pc' = IF vn_ndebug \/ VgNameAccepted(vn_name) THEN "valid" ELSE "aborted"
    /\ UNCHANGED <<vn_args, vn_uuid, vn_ndebug, vn_name>>
    /\ UNCHANGED notVnVars

VgNameNext ==
    \/ VgNameChoose
    \/ VgNameValidate

SpecVgName == VgNameInit /\ [][VgNameNext]_vars

-----------------------------------------------------------------------------
(* Claims about the VG name                                                *)

\* C28: the VG name that goes on to be written into the metadata is not
\* empty and has only characters of the whitelist, for --join, --vg-name
\* and the default; and with --join the generated name always passes the
\* validation, so that the conversion goes on
C28_VgNameWhitelisted ==
    /\ vn_pc = "valid" => VgNameAccepted(vn_name)
    /\ (vn_args.join # << >> /\ vn_pc \in {"valid", "aborted"}) =>
           vn_pc = "valid" /\ VgNameAccepted(vn_name)

-----------------------------------------------------------------------------
(* part_to_bcache.  The disk is taken by byte; the superblock area, 1 MiB  *)
(* in the code, is one sector here, the smallest size                      *)
(* SyntheticDeviceContext accepts.                                         *)

PartBsbSize == SECTOR
PartDiskSize == 8 * SECTOR
PartStarts == {SECTOR, 2 * SECTOR, 3 * SECTOR}
PartSizes == {SECTOR, 2 * SECTOR, 4 * SECTOR}

\* the disk before the command: the partition's data, what precedes it
\* (free space, or something in use), free space after it
DiskImage(part, before) ==
    [i \in 0..(PartDiskSize - 1) |->
        IF i < part.start THEN (IF before = "free" THEN 0 ELSE 1)
        ELSE IF i < part.start + part.size THEN 2
        ELSE 0]

PartInit ==
    /\ NotPbIdle
    /\ pb_pc = "start"
    /\ pb_parted \in BOOLEAN
    /\ pb_ndebug \in BOOLEAN
    /\ pb_before \in {"free", "used"}
    /\ pb_orig \in [start : PartStarts, size : PartSizes]
    /\ pb_part = pb_orig
    /\ pb_disk = DiskImage(pb_orig, pb_before)
    /\ pb_writes = << >>
    /\ pb_err = ""

\* part_to_bcache, lines 193-209: the partition is looked up with
\* _iter_range; the placeholder returns no partition and the command
\* returns 1
PartLookup ==
    /\ pb_pc = "start"
    /\ pb_pc' = IF pb_parted THEN "reserve" ELSE "returned1"
    /\ UNCHANGED <<pb_parted, pb_ndebug, pb_before, pb_orig, pb_part, pb_disk,
                   pb_writes, pb_err>>
    /\ UNCHANGED notPbVars

\* part_to_bcache, lines 215-229: reserve_space_before signals
\* OverlappingPartition when the space before the partition is in use
PartReserve ==
    /\ pb_pc = "reserve"
    /\ IF pb_before = "free"
       THEN pb_pc' = "write" /\ UNCHANGED pb_err
       ELSE pb_pc' = "aborted" /\ pb_err' = "OverlappingPartition"
    /\ UNCHANGED <<pb_parted, pb_ndebug, pb_before, pb_orig, pb_part, pb_disk,
                   pb_writes>>
    /\ UNCHANGED notPbVars

\* part_to_bcache, lines 234-243: device.open_excl() opens the partition,
\* and copy_to_physical writes through that descriptor at
\* write_offset = part_start - bsb_size
PartWrite(open, tool, ub) ==
    /\ pb_pc = "write"
    /\ LET write_offset == Wrap(pb_part.start - PartBsbSize)
           behind_fd == IF open = "ok"
                        THEN PRead(pb_disk, pb_part.start, pb_part.size)
                        ELSE << >>
           mk == make_bcache_sb(PartBsbSize, pb_part.size, tool)
           r == copy_to_physical(mk.synth, behind_fd, write_offset, 0, TRUE,
                                 pb_ndebug, ub)
       IN  IF ~ mk.ok
           THEN /\ ub = "junk"
                /\ pb_pc' = "aborted"
                /\ pb_err' = mk.err
                /\ UNCHANGED <<pb_disk, pb_writes>>
           ELSE /\ pb_pc' = IF r.ok THEN "shift" ELSE "aborted"
                /\ pb_err' = r.err
                /\ pb_disk' = IF open = "ok"
                              THEN PWrite(pb_disk, r.bytes, pb_part.size, pb_part.start)
                              ELSE pb_disk
                /\ pb_writes' = IF open = "ok" /\ r.bytes # behind_fd
                                THEN Append(pb_writes,
                                            [off |-> pb_part.start + write_offset,
                                             len |-> PartBsbSize,
                                             part |-> pb_part])
                                ELSE pb_writes
    /\ UNCHANGED <<pb_parted, pb_ndebug, pb_before, pb_orig, pb_part>>
    /\ UNCHANGED notPbVars

\* part_to_bcache, lines 249-259: open_excl_ctx, shift_left, reset_size
PartShift(open) ==
    /\ pb_pc = "shift"
    /\ IF open = "ok"
       THEN /\ pb_pc' = "done"
            /\ pb_part' = [start |-> pb_part.start - PartBsbSize,
                           size |-> pb_part.size + PartBsbSize]
            /\ UNCHANGED pb_err
       ELSE /\ pb_pc' = "aborted"
            /\ pb_err' = "OpenFailed"
            /\ UNCHANGED pb_part
    /\ UNCHANGED <<pb_parted, pb_ndebug, pb_before, pb_orig, pb_disk, pb_writes>>
    /\ UNCHANGED notPbVars

PartNext ==
    \/ PartLookup
    \/ PartReserve
    \/ \E open \in ToolOutcomes, tool \in SynthOutcomes, ub \in UbOutcomes :
           PartWrite(open, tool, ub)
    \/ \E open \in ToolOutcomes : PartShift(open)

SpecPartToBcache == PartInit /\ [][PartNext]_vars

-----------------------------------------------------------------------------
(* Claims about part_to_bcache                                             *)

-----------------------------------------------------------------------------
(* get_block_stack.  A device is described by what the probes say of it:   *)
(* type is superblock_type() (blkid), magic is has_bcache_superblock(),    *)
(* version and first_sector are the sb.version and dev.data.first_sector   *)
(* lines of bcache-super-show, 0 standing for a line that is not printed.  *)

MaxDepth == 3         \* devices nested in one another

\* bcache-super-show prints dev.data.first_sector for a backing device
\* (versions 1, 4 and 6) and not for a cache device (versions 0 and 3)
BcacheShows == {[version |-> 1, first_sector |-> 16], [version |-> 4, first_sector |-> 16],
                [version |-> 6, first_sector |-> 16], [version |-> 0, first_sector |-> 0],
                [version |-> 3, first_sector |-> 0]}
NoShow == [version |-> 0, first_sector |-> 0]

SupportedFs == {"ext2", "ext3", "ext4", "reiserfs", "btrfs", "nilfs2", "xfs", "swap"}
OtherTypes == {"", "ntfs", "LVM2_member"}

LuksDevs == {[type |-> "crypto_LUKS", magic |-> FALSE, show |-> NoShow]}
BcacheDevs == {[type |-> "bcache", magic |-> TRUE, show |-> sh] : sh \in BcacheShows}
PlainDevs == {[type |-> t, magic |-> FALSE, show |-> NoShow] : t \in SupportedFs \cup OtherTypes}

\* a device and the devices inside it: all but the last are containers
DeviceNests ==
    UNION {{d \in [1..n -> LuksDevs \cup BcacheDevs \cup PlainDevs] :
               \A j \in 1..(n - 1) : d[j] \in LuksDevs \cup BcacheDevs} : n \in 1..MaxDepth}

\* the Filesystem class made for a superblock type, lines 190-202
FsClass(type) ==
    IF type \in {"ext2", "ext3", "ext4"} THEN "ExtFS"
    ELSE IF type = "reiserfs" THEN "ReiserFS"
    ELSE IF type = "btrfs" THEN "BtrFS"
    ELSE IF type = "nilfs2" THEN "NilFS"
    ELSE IF type = "xfs" THEN "XFS"
    ELSE IF type = "swap" THEN "Swap"
    ELSE "null"

\* BCacheBacking::is_backing, container.cpp lines 50-54
is_backing(version) == version = 1 \/ version = 4

GetStackInit ==
    /\ NotGsIdle
    /\ gs_pc = "loop"
    /\ gs_devs \in DeviceNests
    /\ gs_i = 1
    /\ gs_stack = << >>
    /\ gs_err = ""

\* the device inside a container, when there is one to be found
GsEnter(wrapper) ==
    IF gs_i < Len(gs_devs)
    THEN /\ gs_stack' = Append(gs_stack, wrapper)
         /\ gs_i' = gs_i + 1
         /\ UNCHANGED <<gs_pc, gs_err>>
    ELSE /\ gs_pc' = "failed"
         /\ gs_err' = "NoInnerDevice"
         /\ UNCHANGED <<gs_stack, gs_i>>

\* lines 168-172: a LUKS superblock
GsLuks ==
    /\ gs_pc = "loop"
    /\ gs_devs[gs_i].type = "crypto_LUKS"
    /\ GsEnter([class |-> "LUKS", version |-> 0])
    /\ UNCHANGED gs_devs
    /\ UNCHANGED notGsVars

\* lines 173-182: a bcache superblock.  BCacheBacking::read_superblock
\* (container.cpp lines 17-48) throws when it found no first_sector; bail
\* prints the message and ends the process with exit(2)
GsBcache ==
    /\ gs_pc = "loop"
    /\ gs_devs[gs_i].type # "crypto_LUKS"
    /\ gs_devs[gs_i].magic
    /\ LET show == gs_devs[gs_i].show
       IN  IF show.first_sector = 0
           THEN /\ gs_pc' = "failed"
                /\ gs_err' = "NoBcacheOffset"
                /\ UNCHANGED <<gs_stack, gs_i>>
           ELSE IF ~ is_backing(show.version)
           THEN /\ gs_pc' = "bailed"
                /\ gs_err' = "UnsupportedSuperblock"
                /\ UNCHANGED <<gs_stack, gs_i>>
           ELSE GsEnter([class |-> "BCacheBacking", version |-> show.version])
    /\ UNCHANGED gs_devs
    /\ UNCHANGED notGsVars

\* lines 186-210: the filesystem, which ends the loop
GsFilesystem ==
    /\ gs_pc = "loop"
    /\ gs_devs[gs_i].type # "crypto_LUKS"
    /\ ~ gs_devs[gs_i].magic
    /\ IF FsClass(gs_devs[gs_i].type) = "null"
       THEN /\ gs_pc' = "bailed"
            /\ gs_err' = "UnsupportedSuperblock"
            /\ UNCHANGED gs_stack
       ELSE /\ gs_pc' = "returned"
            /\ gs_stack' = Append(gs_stack, [class |-> FsClass(gs_devs[gs_i].type),
                                             version |-> 0])
            /\ UNCHANGED gs_err
    /\ UNCHANGED <<gs_devs, gs_i>>
    /\ UNCHANGED notGsVars

GetStackNext ==
    \/ GsLuks
    \/ GsBcache
    \/ GsFilesystem

SpecGetStack == GetStackInit /\ [][GetStackNext]_vars

-----------------------------------------------------------------------------
(* Claims about get_block_stack                                            *)

FsClasses == {"ExtFS", "ReiserFS", "BtrFS", "NilFS", "XFS", "Swap"}

\* the superblock of the device the loop is at is one get_block_stack has
\* no class for
UnsupportedHere ==
    LET d == gs_devs[gs_i]
    IN  /\ d.type # "crypto_LUKS"
        /\ IF d.magic THEN d.show.version \notin {1, 4}
           ELSE d.type \notin SupportedFs

\* a returned stack is containers followed by one filesystem
GsShape ==
    /\ gs_stack # << >>
    /\ gs_stack[Len(gs_stack)].class \in FsClasses
    /\ \A j \in 1..(Len(gs_stack) - 1) :
           \/ gs_stack[j].class = "LUKS"
           \/ gs_stack[j].class = "BCacheBacking" /\ gs_stack[j].version \in {1, 4}

\* C29: a stack that get_block_stack returns is [w0..wn-1, fs], every w a
\* LUKS or a BCacheBacking of version 1 or 4 and fs a Filesystem of a
\* supported kind; and a call that meets an unrecognised or unsupported
\* superblock ends with UnsupportedSuperblock and returns no stack
C29_StackShapeOrUnsupported ==
    /\ gs_pc = "returned" => GsShape
    /\ (gs_pc \in {"returned", "bailed", "failed"} /\ UnsupportedHere) =>
           gs_pc = "bailed" /\ gs_err = "UnsupportedSuperblock"

\* what holds of every call: the shape of a returned stack, and no stack
\* for an unrecognised or unsupported superblock
ReturnedStacksWellShaped ==
    /\ gs_pc = "returned" => GsShape /\ ~ UnsupportedHere
    /\ gs_pc = "bailed" => gs_err = "UnsupportedSuperblock" /\ UnsupportedHere

-----------------------------------------------------------------------------
(* Claims about LUKS::read_superblock_ll                                   *)

\* the fields of the header the device had when the command started
HdrPayloadStart == be32toh(cv_orig, 104) * SECTOR
HdrKeyBytes == be32toh(cv_orig, 108)
HdrKeyEnds == {be32toh(cv_orig, 208 + 48 * k + 40) * SECTOR + 4000 * HdrKeyBytes : k \in 0..7}

\* read_superblock_ll has returned and shift_sb has not yet wiped sb_end
LlRead == cv_cmd = "luks_to_bcache" /\ cv_luks.sb_end # 0

\* sb_end is the largest of 592 and the ends of the key material, and the
\* payload starts at or after it, on a sector boundary
SbEndIsLargestKeyEnd ==
    /\ cv_luks.sb_end \in HdrKeyEnds \cup {592}
    /\ \A e \in HdrKeyEnds \cup {592} : e <= cv_luks.sb_end
    /\ cv_luks.sb_end <= cv_luks.offset
    /\ cv_luks.offset = HdrPayloadStart
    /\ cv_luks.offset % SECTOR = 0

\* C30: after a successful read_superblock_ll, sb_end is the maximum of 592
\* and key_offset * 512 + 4000 * key_bytes over the 8 key slots, sb_end <=
\* payload_start, and sb_end and payload_start are multiples of 512
C30_SbEndAligned ==
    LlRead => SbEndIsLargestKeyEnd /\ cv_luks.sb_end % SECTOR = 0

\* C30, amended: as above without the alignment of sb_end
C30_SbEndIsMaxKeyEnd == LlRead => SbEndIsLargestKeyEnd

\* a header whose key slot 0 ends beyond the other slots has been read
C30_Witness ==
    /\ LlRead
    /\ cv_luks.sb_end = be32toh(cv_orig, 208 + 40) * SECTOR + 4000 * HdrKeyBytes
    /\ cv_luks.sb_end > be32toh(cv_orig, 208 + 48 * 7 + 40) * SECTOR + 4000 * HdrKeyBytes
    /\ cv_luks.sb_end % SECTOR # 0

-----------------------------------------------------------------------------
(* ExtFS::_resize.  The times are those of the tune2fs listing, 0 for a    *)
(* last mount time of n/a.                                                 *)

ExtStates == {"clean", "not clean", "clean with errors"}
ExtTimes == {0, 1, 2}
ExtBlockSizes == {1024, 4096}
ExtTargets == {8192, 12288, 5120}

\* a _resize that checks every filesystem that is not mounted
NeedsCheckUnmounted(mounted, fs) == ~ mounted

\* line 402: resize2fs requires that the filesystem was checked
NeedsCheck(mounted, fs) ==
    ~ mounted /\ (fs.state # "clean" \/ fs.check_tm < fs.mount_tm)

ExtInit ==
    /\ NotExIdle
    /\ ex_pc = "start"
    /\ ex_fs \in [block_size : ExtBlockSizes, state : ExtStates,
                  mount_tm : ExtTimes, check_tm : ExtTimes]
    /\ ex_sb = ex_fs
    /\ ex_mounted \in BOOLEAN
    /\ ex_target \in ExtTargets
    /\ ex_cmds = << >>

\* ExtFS::_resize, lines 398-413: the assertion and the check
ExtCheck(tool) ==
    /\ ex_pc = "start"
    /\ IF ex_target % ex_fs.block_size # 0
       THEN /\ tool = "ok"
            /\ ex_pc' = "aborted"
            /\ UNCHANGED <<ex_fs, ex_cmds>>
       ELSE IF NeedsCheck(ex_mounted, ex_fs)
       THEN /\ ex_cmds' = Append(ex_cmds, [tool |-> "e2fsck", arg |-> "-f", ok |-> tool = "ok"])
            /\ IF tool = "ok"
               THEN /\ ex_pc' = "checked"
                    /\ ex_fs' = [ex_fs EXCEPT !.check_tm = ex_fs.mount_tm]
               ELSE /\ ex_pc' = "failed"
                    /\ UNCHANGED ex_fs
       ELSE /\ tool = "ok"
            /\ ex_pc' = "checked"
            /\ UNCHANGED <<ex_fs, ex_cmds>>
    /\ UNCHANGED <<ex_sb, ex_mounted, ex_target>>
    /\ UNCHANGED notExVars

\* ExtFS::_resize, lines 415-419: resize2fs -- devpath block_count
ExtResize2fs(tool) ==
    /\ ex_pc = "checked"
    /\ ex_cmds' = Append(ex_cmds, [tool |-> "resize2fs",
                                   arg |-> ex_target \div ex_fs.block_size,
                                   ok |-> tool = "ok"])
    /\ ex_pc' = IF tool = "ok" THEN "done" ELSE "failed"
    /\ UNCHANGED <<ex_fs, ex_sb, ex_mounted, ex_target>>
    /\ UNCHANGED notExVars

ExtNext ==
    \/ \E tool \in ToolOutcomes : ExtCheck(tool)
    \/ \E tool \in ToolOutcomes : ExtResize2fs(tool)

SpecExtResize == ExtInit /\ [][ExtNext]_vars

-----------------------------------------------------------------------------
(* Claims about ExtFS::_resize                                             *)

\* the filesystem was not mounted and its superblock said not clean, or
\* checked before it was last mounted
ExtCheckDue ==
    ~ ex_mounted /\ (ex_sb.state # "clean" \/ ex_sb.check_tm < ex_sb.mount_tm)

ExtRan(name) == {i \in 1..Len(ex_cmds) : ex_cmds[i].tool = name}

\* C31: e2fsck -f is run, and before resize2fs, exactly when the filesystem
\* is not mounted and its state is not clean or its last check is older
\* than its last mount; resize2fs is then run only after e2fsck succeeded;
\* and resize2fs is always given the block count target_size / block_size
C31_CheckBeforeResize ==
    /\ ExtRan("e2fsck") # {} => ExtCheckDue /\ ExtRan("e2fsck") = {1}
    /\ (ExtCheckDue /\ ex_pc \in {"checked", "done", "failed"}) => ExtRan("e2fsck") = {1}
    /\ \A i \in ExtRan("resize2fs") :
           /\ i = Len(ex_cmds)
           /\ ex_cmds[i].arg * ex_sb.block_size = ex_target
           /\ ExtCheckDue => i = 2 /\ ex_cmds[1].tool = "e2fsck" /\ ex_cmds[1].ok
           /\ ~ ExtCheckDue => i = 1
    /\ ex_pc = "done" => ExtRan("resize2fs") # {}

\* resize2fs has run after a check that was due
C31_Witness ==
    /\ ex_pc = "done" /\ ExtCheckDue /\ Len(ex_cmds) = 2

-----------------------------------------------------------------------------
(* Claims about the positions of the stack walks                           *)

\* the sum of the offsets of the containers outside layer i
RECURSIVE OffsetsOutside(_, _)
OffsetsOutside(layers, i) ==
    IF i <= 1 THEN 0 ELSE layers[i - 1].offset + OffsetsOutside(layers, i - 1)

\* the steps of the walk that were invoked on layer i
StepsOn(i) == {j \in 1..Len(st_log) : st_log[j].layer = i}

\* the walk has gone through the whole stack
WalkComplete == st_op \in {"reserve", "grow"} /\ st_status = "done"

\* layer i was stepped once, at the outer position less the offsets outside
SteppedOnceAtItsPos(i) ==
    /\ Cardinality(StepsOn(i)) = 1
    /\ \A j \in StepsOn(i) :
           st_log[j].pos = Wrap(st_pos - OffsetsOutside(st_layers, i))

-----------------------------------------------------------------------------
(* The calls a command makes on its BlockStack, and BlockStack::deactivate *)

DaCmds == {"to_lvm", "lv_to_bcache", "resize"}

\* the stacks get_block_stack returns: containers, then one filesystem
DaStacks ==
    {w \o <<"fs">> : w \in UNION {[1..n -> WrapperKinds] : n \in 0..MaxWrappers}}

\* a command that asks the stack for the filesystem's UUID after deactivate
StackCallsQueryLate(cmd, o) ==
    <<"read_superblocks", "stack_reserve_end_area", "deactivate", "fsuuid">>

\* the calls on block_stack, in program order: cmd_to_lvm (lines 394-435),
\* lv_to_bcache (lines 74-76), cmd_resize (lines 23-33)
StackCalls(cmd, o) ==
    CASE cmd = "to_lvm" ->
           <<"fslabel">> \o (IF o.label THEN <<"fslabel">> ELSE << >>)
           \o <<"read_superblocks", "stack_reserve_end_area", "fsuuid", "deactivate">>
      [] cmd = "lv_to_bcache" ->
           <<"read_superblocks", "stack_reserve_end_area", "deactivate">>
      [] cmd = "resize" ->
           <<"read_superblocks", "total_data_size", "total_data_size", "stack_resize">>
           \o (IF o.shrink /\ o.resize_device
               THEN <<"total_data_size">>
                    \o (IF o.partition THEN <<"deactivate">> ELSE << >>)
               ELSE << >>)

\* the calls that run external tools and may throw
DaMayThrow == {"read_superblocks", "stack_reserve_end_area", "stack_resize"}

DeactInit ==
    /\ NotDaIdle
    /\ da_cmd \in DaCmds
    /\ da_opt \in [label : BOOLEAN, shrink : BOOLEAN, resize_device : BOOLEAN,
                   partition : BOOLEAN]
    /\ da_cmd = "to_lvm" => ~ da_opt.shrink /\ ~ da_opt.resize_device /\ ~ da_opt.partition
    /\ da_cmd = "lv_to_bcache" => da_opt = [label |-> FALSE, shrink |-> FALSE,
                                            resize_device |-> FALSE, partition |-> FALSE]
    /\ da_cmd = "resize" => ~ da_opt.label
    /\ da_pc = "run"
    /\ da_next = 1
    /\ da_stack \in DaStacks
    /\ da_idx = 0
    /\ da_torn = << >>
    /\ da_calls = << >>
    /\ da_live = {k \in 1..Len(da_stack) : da_stack[k] = "bcache"}
    /\ da_stopping = {}

DaAfterCall(name) ==
    /\ da_calls' = Append(da_calls, [name |-> name, stack |-> da_stack, cleared |-> da_stack = << >>])
    /\ da_next' = da_next + 1
    /\ da_pc' = IF da_next + 1 > Len(StackCalls(da_cmd, da_opt)) THEN "done" ELSE "run"

\* a query or a resize of the stack
DaCall(tool) ==
    /\ da_pc = "run"
    /\ da_next <= Len(StackCalls(da_cmd, da_opt))
    /\ LET name == StackCalls(da_cmd, da_opt)[da_next]
       IN  /\ name # "deactivate"
           /\ IF name \in DaMayThrow /\ tool = "fail"
              THEN /\ da_pc' = "aborted"
                   /\ UNCHANGED <<da_next, da_calls>>
              ELSE /\ tool = "ok"
                   /\ DaAfterCall(name)
    /\ UNCHANGED <<da_cmd, da_opt, da_stack, da_idx, da_torn>>
    /\ UNCHANGED <<da_live, da_stopping>>
    /\ UNCHANGED notDaVars

\* BlockStack::deactivate, line 150: the loop starts at stack.rbegin()
DaEnter ==
    /\ da_pc = "run"
    /\ da_next <= Len(StackCalls(da_cmd, da_opt))
    /\ StackCalls(da_cmd, da_opt)[da_next] = "deactivate"
    /\ da_pc' = "teardown"
    /\ da_idx' = Len(da_stack)
    /\ UNCHANGED <<da_cmd, da_opt, da_next, da_stack, da_torn, da_calls>>
    /\ UNCHANGED <<da_live, da_stopping>>
    /\ UNCHANGED notDaVars

\* BlockStack::deactivate, lines 150-156: one turn of the loop on a LUKS,
\* whose deactivate() may throw, or on the filesystem, which has none
DaTeardown(tool) ==
    /\ da_pc = "teardown"
    /\ da_idx >= 1
    /\ da_stack[da_idx] # "bcache"
    /\ IF da_stack[da_idx] = "luks"
       THEN IF tool = "fail"
            THEN /\ da_pc' = "aborted"
                 /\ UNCHANGED <<da_idx, da_torn>>
            ELSE /\ da_torn' = Append(da_torn, da_idx)
                 /\ da_idx' = da_idx - 1
                 /\ da_pc' = da_pc
       ELSE /\ tool = "ok"
            /\ da_idx' = da_idx - 1
            /\ UNCHANGED <<da_pc, da_torn>>
    /\ UNCHANGED <<da_cmd, da_opt, da_next, da_stack, da_calls>>
    /\ UNCHANGED <<da_live, da_stopping>>
    /\ UNCHANGED notDaVars

\* BCacheBacking::deactivate, lines 74-80: "stop" is written to bcache/stop,
\* a file that is there only while the device is activated
DaBcacheStop ==
    /\ da_pc = "teardown"
    /\ da_idx >= 1
    /\ da_stack[da_idx] = "bcache"
    /\ IF da_idx \in da_live
       THEN /\ da_pc' = "stop_written"
            /\ da_stopping' = da_stopping \cup {da_idx}
       ELSE /\ da_pc' = "aborted"
            /\ UNCHANGED da_stopping
    /\ UNCHANGED <<da_cmd, da_opt, da_next, da_stack, da_idx, da_torn, da_calls, da_live>>
    /\ UNCHANGED notDaVars

\* the kernel stops a device it was told to stop and removes its sysfs node
DaKernelStop ==
    /\ \E k \in da_stopping :
           /\ da_live' = da_live \ {k}
           /\ da_stopping' = da_stopping \ {k}
    /\ UNCHANGED <<da_cmd, da_opt, da_pc, da_next, da_stack, da_idx, da_torn, da_calls>>
    /\ UNCHANGED notDaVars

\* BCacheBacking::deactivate, lines 82-86: is_activated() right after the write
DaBcacheCheck ==
    /\ da_pc = "stop_written"
    /\ IF da_idx \in da_live
       THEN /\ da_pc' = "not_stopped"
            /\ UNCHANGED <<da_idx, da_torn>>
       ELSE /\ da_torn' = Append(da_torn, da_idx)
            /\ da_idx' = da_idx - 1
            /\ da_pc' = "teardown"
    /\ UNCHANGED <<da_cmd, da_opt, da_next, da_stack, da_calls, da_live, da_stopping>>
    /\ UNCHANGED notDaVars

\* BlockStack::deactivate, lines 158-159: stack.clear(), and the return
DaClear ==
    /\ da_pc = "teardown"
    /\ da_idx = 0
    /\ da_stack' = << >>
    /\ DaAfterCall("deactivate")
    /\ UNCHANGED <<da_cmd, da_opt, da_idx, da_torn>>
    /\ UNCHANGED <<da_live, da_stopping>>
    /\ UNCHANGED notDaVars

DeactNext ==
    \/ \E tool \in ToolOutcomes : DaCall(tool)
    \/ DaEnter
    \/ \E tool \in ToolOutcomes : DaTeardown(tool)
    \/ DaBcacheStop
    \/ DaKernelStop
    \/ DaBcacheCheck
    \/ DaClear

SpecDeactivate == DeactInit /\ [][DeactNext]_vars

\* deactivate() has returned
DaDeactivated == \E i \in 1..Len(da_calls) : da_calls[i].name = "deactivate"

\* C33: BlockStack::deactivate tears the containers down from the innermost
\* to the outermost and leaves the stack empty, and in cmd_to_lvm,
\* lv_to_bcache and cmd_resize no query or resize of the stack is made once
\* deactivate() has run
C33_NoStackUseAfterDeactivate ==
    /\ \A i, j \in 1..Len(da_torn) : i < j => da_torn[i] > da_torn[j]
    /\ \A i \in 1..Len(da_calls) :
           /\ ~ da_calls[i].cleared
           /\ da_calls[i].name = "deactivate" =>
                  /\ i = Len(da_calls)
                  /\ da_stack = << >>
                  /\ da_pc = "done"
                  /\ {da_torn[k] : k \in 1..Len(da_torn)}
                         = {k \in 1..Len(da_calls[i].stack) :
                                da_calls[i].stack[k] \in WrapperKinds}

\* deactivate() has returned on a stack of two containers
C33_Witness ==
    /\ DaDeactivated
    /\ da_torn = <<2, 1>>
    /\ da_pc = "done"

-----------------------------------------------------------------------------
(* Claims about the filesystem check of cmd_to_lvm                         *)

\* e2fsck -f -y has been run, on args.device, and has returned
FsckRan == cv_cmd = "to_lvm" /\ (cv_err = "FsckFailed" \/ cv_pc = "reserve")

\* C34: cmd_to_lvm runs e2fsck -f -y only when the leaf filesystem of the
\* block stack is an ExtFS, and then against the device that carries that
\* filesystem, which is args.device only when the stack has no container
C34_FsckOnlyOnExtDevice ==
    FsckRan => st_fs.kind \in ExtKinds /\ st_layers = << >>

-----------------------------------------------------------------------------
(* mk_dm                                                                    *)

DmNames == {"rozeros-1", "synthetic-1", "synthetic-2"}
DmTables == {"0 8 zero", "0 8 linear /dev/sdb 0", "0 8 error"}

\* vector::insert(begin() + i, x), i counted from 0
InsertAt(seq, i, x) == SubSeq(seq, 1, i) \o <<x>> \o SubSeq(seq, i + 1, Len(seq))

\* lines 281-287 and 294-299: the dmsetup create command
CreateCmd(flag, a) ==
    (IF a.readonly
     THEN InsertAt(<<"dmsetup", "create", flag>>, 2, "--readonly")
     ELSE <<"dmsetup", "create", flag>>) \o <<"--", a.devname>>

\* a removal that never waits for udev
RemoveCmdNoSync(devname, fallback) ==
    <<"dmsetup", "remove", "--noudevsync", "--", devname>>

\* lines 302-305: the dmsetup remove command
RemoveCmd(devname, fallback) ==
    [<<"dmsetup", "remove", "--noudevsync", "--", devname>>
         EXCEPT ![3] = IF fallback THEN "--verifyudev" ELSE @]

MkDmInit ==
    /\ NotMdIdle
    /\ md_pc = "start"
    /\ md_args \in [devname : DmNames, table : DmTables, readonly : BOOLEAN]
    /\ md_fallback = FALSE
    /\ md_cmds = << >>
    /\ md_callback = << >>

DmRan(argv, input, tool) == [argv |-> argv, stdin |-> input, ok |-> tool = "ok"]

\* mk_dm, lines 280-292 and, when the command succeeded, 302-314
MkDmCreate(tool) ==
    /\ md_pc = "start"
    /\ md_cmds' = Append(md_cmds,
                         DmRan(CreateCmd("--noudevsync", md_args), md_args.table, tool))
    /\ IF tool = "ok"
       THEN /\ md_pc' = "returned"
            /\ md_callback' = RemoveCmd(md_args.devname, md_fallback)
            /\ UNCHANGED md_fallback
       ELSE /\ md_pc' = "fallback"
            /\ md_fallback' = TRUE
            /\ UNCHANGED md_callback
    /\ UNCHANGED md_args
    /\ UNCHANGED notMdVars

\* mk_dm, lines 292-300 and, when the command succeeded, 302-314
MkDmFallback(tool) ==
    /\ md_pc = "fallback"
    /\ md_cmds' = Append(md_cmds,
                         DmRan(CreateCmd("--verifyudev", md_args), md_args.table, tool))
    /\ IF tool = "ok"
       THEN /\ md_pc' = "returned"
            /\ md_callback' = RemoveCmd(md_args.devname, md_fallback)
       ELSE /\ md_pc' = "failed"
            /\ UNCHANGED md_callback
    /\ UNCHANGED <<md_args, md_fallback>>
    /\ UNCHANGED notMdVars

\* the caller runs exit_callback: lines 307-313, a failure is a warning
MkDmExit(tool) ==
    /\ md_pc = "returned"
    /\ md_cmds' = Append(md_cmds, DmRan(md_callback, "", tool))
    /\ md_pc' = "removed"
    /\ UNCHANGED <<md_args, md_fallback, md_callback>>
    /\ UNCHANGED notMdVars

MkDmNext ==
    \/ \E tool \in ToolOutcomes : MkDmCreate(tool)
    \/ \E tool \in ToolOutcomes : MkDmFallback(tool)
    \/ \E tool \in ToolOutcomes : MkDmExit(tool)

SpecMkDm == MkDmInit /\ [][MkDmNext]_vars

\* the dmsetup create commands that were run
DmCreates == SelectSeq(md_cmds, LAMBDA c : c.argv[2] = "create")

DmHas(c, flag) == \E k \in 1..Len(c.argv) : c.argv[k] = flag

\* C35: mk_dm first tries dmsetup create with --noudevsync and retries
\* exactly once, with --verifyudev, only if that attempt failed; the removal
\* command it registers has --verifyudev if and only if the fallback was
\* used and --noudevsync otherwise; if both attempts fail no removal
\* callback is registered
C35_OneFallbackAndMatchingRemoval ==
    /\ Len(DmCreates) <= 2
    /\ Len(DmCreates) >= 1 =>
           DmHas(DmCreates[1], "--noudevsync") /\ ~ DmHas(DmCreates[1], "--verifyudev")
    /\ Len(DmCreates) = 2 =>
           /\ ~ DmCreates[1].ok
           /\ DmHas(DmCreates[2], "--verifyudev")
           /\ ~ DmHas(DmCreates[2], "--noudevsync")
    /\ md_pc = "fallback" <=> (Len(DmCreates) = 1 /\ ~ DmCreates[1].ok)
    /\ md_callback # << >> =>
           /\ DmCreates[Len(DmCreates)].ok
           /\ md_callback[2] = "remove"
           /\ md_callback[Len(md_callback)] = md_args.devname
           /\ md_callback[3] = IF Len(DmCreates) = 2 THEN "--verifyudev"
                                                      ELSE "--noudevsync"
    /\ md_pc = "failed" =>
           /\ md_callback = << >>
           /\ Len(DmCreates) = 2 /\ ~ DmCreates[2].ok

\* the fallback succeeded and its removal command was registered
C35_Witness ==
    /\ md_pc = "returned"
    /\ Len(DmCreates) = 2
    /\ md_callback[3] = "--verifyudev"

-----------------------------------------------------------------------------
(* Claims about the extents of a rotated LV                                *)

NoExtent == [pv |-> "", pe |-> -1]

\* the (PV, physical extent) logical extent i of the LV is mapped to
PhysOf(t, i) ==
    LET covering == {k \in 1..Len(t.nodes) :
                        /\ t.nodes[k].start_extent <= i
                        /\ i < t.nodes[k].start_extent + t.nodes[k].extent_count}
    IN  IF Cardinality(covering) # 1 THEN NoExtent
        ELSE LET n == t.nodes[CHOOSE k \in covering : TRUE]
             IN  [pv |-> n.pv, pe |-> n.off + (i - n.start_extent)]

\* the number of logical extents of the LV
ExtentsOf(t) == ExtentTotal(t, t.segment_count)

\* the tree the k-th rotate_aug call was given, and the tree it left
RotBefore(k) == rot_hist[k]
RotAfter(k) == IF k = Len(rot_hist) THEN rot_tree ELSE rot_hist[k + 1]

\* the rotate_aug calls that ran to their end
RotCompleted ==
    {k \in 1..Len(rot_dirs) : k < Len(rot_dirs) \/ rot_status = "ok"}

SameMapping(t, u) ==
    /\ ExtentsOf(t) = ExtentsOf(u)
    /\ \A i \in 0..(ExtentsOf(t) - 1) : PhysOf(t, i) = PhysOf(u, i)

NamedWithoutGaps(t) ==
    /\ Len(t.nodes) = t.segment_count
    /\ \A l \in 1..t.segment_count :
           Cardinality({k \in 1..Len(t.nodes) : t.nodes[k].label = l}) = 1

\* segment1 starts at extent 0 and each segment where the one before ends
Contiguous(t) ==
    /\ AugGet(t, 1, "start_extent") = 0
    /\ \A l \in 1..(t.segment_count - 1) :
           AugGet(t, l + 1, "start_extent")
               = AugGet(t, l, "start_extent") + AugGet(t, l, "extent_count")

-----------------------------------------------------------------------------
(* Claims about the smallest device cmd_to_lvm converts                    *)

\* device.size() / pe_size, the extents of the device
DeviceExtents == st_devsize \div cv_lvm.pe_size

\* C39: cmd_to_lvm does not mutate the device or emit metadata when the
\* device has fewer than 3 extents: pe_count = device.size() / pe_size - 1
\* and pe_count - 1 never wrap around and no segment with extent_count 0
\* is written
C39_SmallDeviceRejected ==
    (/\ cv_cmd = "to_lvm"
     /\ cv_orig[1] # LABELONE
     /\ cv_lvm.pe_size > 0)
        => /\ DeviceExtents < 3 =>
               /\ cv_trace = << >>
               /\ cv_bytes = cv_orig
               /\ cv_lvm.layout = << >>
           /\ cv_lvm.layout # << >> =>
               \A k \in 1..Len(cv_lvm.layout.segments) :
                   /\ cv_lvm.layout.segments[k].extent_count >= 1
                   /\ cv_lvm.layout.segments[k].extent_count < DeviceExtents

\* C40: with the kernel honouring the write to bcache/stop asynchronously,
\* BCacheBacking::deactivate does not fail because the sysfs node bcache is
\* still there at the instant it is checked, and it does not return while
\* the backing device is still activated
C40_BcacheStopAwaited ==
    /\ da_pc # "not_stopped"
    /\ \A k \in 1..Len(da_torn) : da_torn[k] \notin da_live

=============================================================================
